---- MODULE Spec2Model ----
(***************************************************************************)
(* The background service worker of the Trace extension                    *)
(* (src/background.js, the worker loaded from line 921 on): the message    *)
(* router, the in-memory session (authToken, currentUser), the durable     *)
(* storage it is persisted to, and the 401 replay of summarizePage and     *)
(* savePreferences.                                                        *)
(*                                                                         *)
(* Execution model.  The worker is single-threaded: a handler runs without *)
(* preemption up to its next await or callback.  Every action below is one *)
(* such run: the listener's dispatch of a message up to the first          *)
(* suspension, or the continuation after a suspension up to the next one.  *)
(* Awaits between which the handler touches no shared state (the           *)
(* backendUrl read followed by tabs.get, fetch followed by                 *)
(* response.json()) are one suspension.  chrome.storage operations take    *)
(* effect in the order they are issued, so a write is applied, and a read  *)
(* takes its snapshot, in the step that issues it; the continuation that   *)
(* receives the result is a later step.                                    *)
(***************************************************************************)
EXTENDS Integers, Sequences, FiniteSets, TLC

\* ------------------------------------------------------------------ bounds

\* Number of handler invocations that can be in flight at the same time
\* when the events are those that read or write the session.
MaxReq == 2

\* The same, when the surfaces send every kind of message.
MaxRouterReq == 1

\* ------------------------------------------------------------------ values

\* JavaScript null / undefined: every falsy "no value".
Absent == "absent"

Tokens == {"t1", "t2"}
Users == {"u1", "u2"}
Tabs == {"tab1"}
Urls == {"a", "b"}
PrefValues == {"p1", "p2"}
BackendErrors == {"Token has expired"}

\* HTTP status that starts the replay (response.status === 401).
Unauthorized == 401
Statuses == {200, Unauthorized, 500}

\* A response.ok that also holds for 401.
OkOrUnauthorized(status) == (status >= 200 /\ status <= 299) \/ status = Unauthorized

IsOk(status) == status >= 200 /\ status <= 299

Present(v) == v # Absent

\* ------------------------------------------------------------------ state

VARIABLES
  authToken,         \* let authToken
  currentUser,       \* let currentUser
  extensionEnabled,  \* let extensionEnabled
  pageTitles,        \* let pageTitles (the tab ids that have an entry)
  storage,           \* chrome.storage.local: the keys the worker reads
  tabUrl,            \* the browser's tabs: url, "nourl" or "closed"
  req,               \* the handler invocations, one record per slot
  ui                 \* the surface that sends the messages: side panel or wizard

vars == <<authToken, currentUser, extensionEnabled, pageTitles, storage, tabUrl, req, ui>>

NoResp == [kind |-> "none", err |-> Absent, user |-> Absent, token |-> Absent, val |-> Absent]

Resp(kind, err, user, token, val) ==
  [kind |-> kind, err |-> err, user |-> user, token |-> token, val |-> val]

Success(val) == Resp("success", Absent, Absent, Absent, val)
Failure(err) == Resp("failure", err, Absent, Absent, Absent)
NotAuthenticated == Resp("unauthenticated", Absent, Absent, Absent, Absent)

\* prefsCache stands for the keys summaryStyle, autoSummarizeEnabled and
\* notificationsEnabled, which are only written together.
EmptyStorage ==
  [extensionEnabled |-> Absent, authToken |-> Absent, currentUser |-> Absent,
   prefsCache |-> Absent]

\* The result of a chrome.storage.local.get: the values read, or a failure.
NoSnap == [ok |-> FALSE, extensionEnabled |-> Absent, authToken |-> Absent, currentUser |-> Absent]

NoData == [token |-> Absent, user |-> Absent]

\* One invocation of a handler.  action and arg are the message; pc is the
\* suspension the handler waits at; retryCount is the handler's parameter;
\* snap (the storage read awaited), data and stored (did the awaited storage
\* write succeed) are its locals.  The rest records what the invocation did:
\* ncalls backend calls, sent the one in flight, first the body of the first
\* one, replies the replies it got, heard the body of the last reply until
\* the handler lets go of it, reloads its calls of
\* initializeExtensionState, loaded the token the last of them read, nresp
\* and resp its calls of sendResponse.
NoCall == [ep |-> Absent, body |-> Absent, bearer |-> Absent]

\* What the handler holds of the reply it is working on: whether its body is
\* JSON and the error field of that body.
NoReply == [json |-> FALSE, err |-> Absent]

IdleReq ==
  [action |-> "none", pc |-> "idle", retryCount |-> 0, arg |-> Absent,
   ncalls |-> 0, sent |-> NoCall, first |-> Absent, replies |-> <<>>, heard |-> NoReply,
   reloads |-> 0, nresp |-> 0, resp |-> NoResp,
   snap |-> NoSnap, loaded |-> Absent, data |-> NoData, stored |-> TRUE,
   pending |-> FALSE]

\* The cases of the listener's switch that end in return true.
PendingActions ==
  {"summarizePage", "summarizeHTML", "testBackend", "googleAuth", "logout", "checkAuth",
   "getSubscriptionStatus", "createCheckoutSession", "refreshSubscriptionStatus",
   "forceAuthRefresh", "savePreferences", "loadPreferences", "sendFeedback"}

\* A listener whose case 'logout' ends in break.
PendingExceptLogout(action) == action \in PendingActions \ {"logout"}

\* What the listener returns for a message: true from the cases that end in
\* return true, undefined after a break or when no case matches.
ResponsePending(action) == action \in PendingActions

\* The listener runs for a message: the case taken and what it returns.
NewReq(action, pc, arg) ==
  [IdleReq EXCEPT !.action = action, !.pc = pc, !.arg = arg,
                  !.pending = ResponsePending(action)]

\* A finished invocation (pc = "done": the handler has returned) is retired
\* before the worker runs anything else, so a slot is idle, waiting at a
\* suspension, or just finished.
Quiet == \A s \in DOMAIN req : req[s].pc # "done"
Free(s) == Quiet /\ req[s].pc = "idle"
At(s, pc) == Quiet /\ req[s].pc = pc

\* sendResponse(resp): one more invocation of the request's callback.
Respond(r, resp) == [r EXCEPT !.nresp = @ + 1, !.resp = resp]

\* The handler has nothing left to run.
Finish(r) == [r EXCEPT !.pc = "done", !.snap = NoSnap]

Reply(r, resp) == Finish(Respond(r, resp))

\* A backend call leaves the worker: endpoint, body and Authorization header.
Call(r, ep, body, bearer) ==
  [r EXCEPT !.ncalls = @ + 1, !.sent = [ep |-> ep, body |-> body, bearer |-> bearer],
            !.first = Absent, !.loaded = Absent, !.heard = NoReply]

\* A backend reply reached the handler: its status, whether it is a 2xx JSON
\* body that reports success, and the value it carries.
Got(r, reply) ==
  [r EXCEPT !.replies = Append(@, [status |-> reply.status,
                                   good |-> reply.status >= 200 /\ reply.status <= 299
                                              /\ reply.json /\ reply.success,
                                   val |-> reply.val]),
            !.first = r.sent.body, !.sent = NoCall,
            !.heard = [json |-> reply.json, err |-> reply.err]]

\* headers['Authorization'] is added only if (authToken).
OptionalBearer == IF Present(authToken) THEN authToken ELSE "none"

\* 'Authorization': `Bearer ${authToken}`, unconditionally.
TemplateBearer == IF Present(authToken) THEN authToken ELSE "null"

\* ------------------------------------------------------------------ storage

\* chrome.storage.local.set(items): a key whose value is undefined is left as
\* it was, a key whose value is null is stored as null.  A value the backend
\* did not send is either, so both outcomes are possible.
SetOutcomes(items) ==
  {[k \in DOMAIN storage |->
       IF k \in DOMAIN items
         THEN (IF Present(items[k]) \/ k \in nulls THEN items[k] ELSE storage[k])
         ELSE storage[k]] :
     nulls \in SUBSET {k \in DOMAIN items : ~Present(items[k])}}

\* A remove that leaves the keys in place.
RemoveSkipped(keys) == storage

Removed(keys) == [k \in DOMAIN storage |-> IF k \in keys THEN Absent ELSE storage[k]]

\* chrome.storage.local.get(['extensionEnabled', 'authToken', 'currentUser'])
\* resolves with the stored values or rejects.
Snapshots ==
  {[ok |-> TRUE, extensionEnabled |-> storage.extensionEnabled,
    authToken |-> storage.authToken, currentUser |-> storage.currentUser], NoSnap}


BoolStr(b) == IF b THEN "true" ELSE "false"

\* ------------------------------------------------------------------ Init

\* The worker's module-level state at install, before any event.
\* No surface is modelled: the messages come from anywhere.
NoUi == [pc |-> "none"]

Fresh ==
  /\ authToken = Absent
  /\ currentUser = Absent
  /\ extensionEnabled = TRUE
  /\ pageTitles = {}
  /\ storage = EmptyStorage
  /\ tabUrl = [t \in Tabs |-> "a"]
  /\ ui = NoUi

Init == Fresh /\ req = [s \in 1..MaxRouterReq |-> IdleReq]

SessionInit == Fresh /\ req = [s \in 1..MaxReq |-> IdleReq]

Put(s, r) == req' = [req EXCEPT ![s] = r]

SessionUnchanged == UNCHANGED <<authToken, currentUser>>
MemoryUnchanged == UNCHANGED <<authToken, currentUser, extensionEnabled, pageTitles>>
EnvUnchanged == UNCHANGED <<storage, tabUrl, ui>>

\* ------------------------------------------------- initializeExtensionState

\* initializeExtensionState up to its await: the storage read is issued.
StartReload(r, pc) ==
  {[r EXCEPT !.pc = pc, !.snap = snap, !.reloads = @ + 1, !.heard = NoReply] :
     snap \in Snapshots}

\* initializeExtensionState after its await: the three assignments of the
\* try block, or the safe defaults of the catch block.
LoadedEnabled(snap) == IF snap.ok THEN snap.extensionEnabled # "false" ELSE TRUE
\* A catch block that leaves authToken as it was.
LoadedTokenKept(snap) == IF snap.ok THEN snap.authToken ELSE authToken
LoadedToken(snap) == IF snap.ok THEN snap.authToken ELSE Absent
LoadedUser(snap) == IF snap.ok THEN snap.currentUser ELSE Absent

\* The invocation after its reload: the read is consumed.
Loaded(r) == [r EXCEPT !.loaded = LoadedToken(r.snap), !.snap = NoSnap]

ApplyLoad(snap) ==
  /\ extensionEnabled' = LoadedEnabled(snap)
  /\ authToken' = LoadedToken(snap)
  /\ currentUser' = LoadedUser(snap)

\* chrome.runtime.onInstalled / onStartup: initializeExtensionState().
OnStartup(s) ==
  /\ Free(s)
  /\ \E r \in StartReload(NewReq("startup", "init_get", Absent), "init_get") : Put(s, r)
  /\ MemoryUnchanged /\ EnvUnchanged

\* chrome.action.onClicked: open the side panel, initializeExtensionState().
OnClicked(s) ==
  /\ Free(s)
  /\ \E r \in StartReload(NewReq("iconClick", "init_get", Absent), "init_get") : Put(s, r)
  /\ MemoryUnchanged /\ EnvUnchanged

\* The load started by an event finishes.
InitLoaded(s) ==
  /\ At(s, "init_get")
  /\ ApplyLoad(req[s].snap)
  /\ Put(s, Finish(req[s]))
  /\ UNCHANGED <<pageTitles, storage, tabUrl, ui>>

\* --------------------------------------------------- the worker's lifetime

\* The invocation's closure is dropped once the handler has returned.
\* A worker in which a handler that failed is never done with.
RetireUnlessFailed(s) ==
  /\ req[s].pc = "done" /\ req[s].resp.kind # "failure"
  /\ req' = [req EXCEPT ![s] = IdleReq]
  /\ MemoryUnchanged /\ EnvUnchanged

Retire(s) ==
  /\ req[s].pc = "done"
  /\ req' = [req EXCEPT ![s] = IdleReq]
  /\ MemoryUnchanged /\ EnvUnchanged

\* The browser stops the idle worker; the next event starts it again and the
\* module-level lets are evaluated anew.
Restart ==
  /\ \A s \in DOMAIN req : Free(s)
  /\ authToken' = Absent
  /\ currentUser' = Absent
  /\ extensionEnabled' = TRUE
  /\ pageTitles' = {}
  /\ UNCHANGED req
  /\ EnvUnchanged

\* ------------------------------------------------------------ environment

\* The user navigates a tab to another page.
Navigate(t) ==
  /\ Quiet
  /\ tabUrl[t] # "closed"
  /\ \E u \in Urls : u # tabUrl[t] /\ tabUrl' = [tabUrl EXCEPT ![t] = u]
  /\ UNCHANGED <<authToken, currentUser, extensionEnabled, pageTitles, storage, req, ui>>

\* The tab shows a page whose url the worker is not given.
TabLoading(t) ==
  /\ Quiet
  /\ tabUrl[t] \in Urls
  /\ tabUrl' = [tabUrl EXCEPT ![t] = "nourl"]
  /\ UNCHANGED <<authToken, currentUser, extensionEnabled, pageTitles, storage, req, ui>>

\* The tab is closed; chrome.tabs.onRemoved: pageTitles.delete(tabId).
TabRemoved(t) ==
  /\ Quiet
  /\ tabUrl[t] # "closed"
  /\ tabUrl' = [tabUrl EXCEPT ![t] = "closed"]
  /\ pageTitles' = pageTitles \ {t}
  /\ UNCHANGED <<authToken, currentUser, extensionEnabled, storage, req, ui>>

\* The side panel's toggle: it writes extensionEnabled to storage itself
\* before it sends toggleExtension.
SurfaceStoresEnabled(b) ==
  /\ Quiet
  /\ storage.extensionEnabled # BoolStr(b)
  /\ storage' = [storage EXCEPT !.extensionEnabled = BoolStr(b)]
  /\ UNCHANGED <<authToken, currentUser, extensionEnabled, pageTitles, tabUrl, req, ui>>

\* ------------------------------------------------ onMessage: no I/O cases

\* case 'toggleExtension': extensionEnabled = request.enabled; break
ToggleExtension(s, enabled) ==
  /\ Free(s)
  /\ extensionEnabled' = enabled
  /\ Put(s, Finish(NewReq("toggleExtension", "done", BoolStr(enabled))))
  /\ UNCHANGED <<authToken, currentUser, pageTitles, storage, tabUrl, ui>>

\* case 'pageLoaded': if (extensionEnabled && sender.tab) pageTitles.set(...)
PageLoaded(s, t) ==
  /\ Free(s)
  /\ tabUrl[t] \in Urls
  /\ pageTitles' = IF extensionEnabled THEN pageTitles \cup {t} ELSE pageTitles
  /\ Put(s, Finish(NewReq("pageLoaded", "done", t)))
  /\ UNCHANGED <<authToken, currentUser, extensionEnabled, storage, tabUrl, ui>>

\* case 'checkEnabled': sendResponse({enabled: extensionEnabled}); break
CheckEnabled(s) ==
  /\ Free(s)
  /\ Put(s, Reply(NewReq("checkEnabled", "done", Absent),
                  Resp("enabled", Absent, Absent, Absent, BoolStr(extensionEnabled))))
  /\ MemoryUnchanged /\ EnvUnchanged

\* The actions the UI surfaces send that the switch has no case for.
UnknownActions == {"createPortalSession", "cancelSubscription", "onboardingCompleted",
                   "preferencesUpdated"}

\* A switch with a default case that answers the sender.
NoCaseAnswers(r) == Reply(r, Failure("Unknown action"))

\* What the listener does with a message after the last case of its switch.
NoCase(r) == Finish(r)

\* A message whose action matches no case: the switch falls through and the
\* listener returns undefined.
Unrecognized(s, a) ==
  /\ Free(s)
  /\ Put(s, NoCase(NewReq(a, "done", Absent)))
  /\ MemoryUnchanged /\ EnvUnchanged


\* ---------------------------------------------------------------- backend

\* What a fetch gives back: a rejection, or a response with its status,
\* whether its body is JSON, and the fields of the body the handlers read.
Rejected ==
  [status |-> 0, json |-> FALSE, success |-> FALSE, err |-> Absent,
   token |-> Absent, user |-> Absent, val |-> Absent]

Response(status, json, success, err, token, user, val) ==
  [status |-> status, json |-> json, success |-> success, err |-> err,
   token |-> token, user |-> user, val |-> val]

NotJson(status) == Response(status, FALSE, FALSE, Absent, Absent, Absent, Absent)

ErrorBodies ==
  {Response(st, TRUE, FALSE, e, Absent, Absent, Absent) :
     st \in Statuses \ {200}, e \in BackendErrors \cup {Absent}}

IsRejected(reply) == reply.status = 0

\* POST /api/auth/google
AuthReplies ==
  {Rejected, NotJson(200), NotJson(500)}
    \cup {Response(200, TRUE, TRUE, Absent, t, u, Absent) :
            t \in Tokens \cup {Absent}, u \in Users \cup {Absent}}

\* GET /api/auth/verify
VerifyReplies ==
  {Rejected, NotJson(200), NotJson(Unauthorized)}
    \cup {Response(200, TRUE, TRUE, Absent, Absent, u, Absent) : u \in Users \cup {Absent}}

\* The subscription endpoints.
DataReplies ==
  {Rejected, NotJson(200), NotJson(500), Response(200, TRUE, TRUE, Absent, Absent, Absent, "data")}
    \cup ErrorBodies

\* A storage write the handler awaits: the new storage and whether it worked.
Writes(outcomes) ==
  {[ok |-> TRUE, v |-> o] : o \in outcomes} \cup {[ok |-> FALSE, v |-> storage]}

\* ------------------------------------------------------------- googleAuth

\* case 'googleAuth': authenticateWithGoogle(sendResponse)
GoogleAuth(s) ==
  /\ Free(s)
  /\ Put(s, NewReq("googleAuth", "ga_identity", Absent))
  /\ MemoryUnchanged /\ EnvUnchanged

\* clearAllCachedAuthTokens, getAuthToken and the userinfo fetch: without a
\* token or user info the handler answers, with them it calls the backend.
GoogleIdentity(s) ==
  /\ At(s, "ga_identity")
  /\ \/ Put(s, Reply(req[s], Failure("Failed to get token")))
     \/ Put(s, Reply(req[s], Failure("Failed to get user info")))
     \/ Put(s, [Call(req[s], "auth/google", "user_info", "none") EXCEPT !.pc = "ga_fetch"])
  /\ MemoryUnchanged /\ EnvUnchanged

\* Which fields of the backend's reply become the session: authToken =
\* data.token; currentUser = data.user.
AuthData(reply) == [token |-> reply.token, user |-> reply.user]

\* The backend answered: on a 2xx JSON body the session is assigned and the
\* storage write is issued.
GoogleAuthReplied(s) ==
  /\ At(s, "ga_fetch")
  /\ \E reply \in AuthReplies :
       LET r == Got(req[s], reply) IN
       IF IsRejected(reply) THEN
         /\ Put(s, Reply(r, Failure("Failed to fetch")))
         /\ MemoryUnchanged /\ EnvUnchanged
       ELSE IF ~IsOk(reply.status) THEN
         /\ Put(s, Reply(r, Failure("Backend authentication failed")))
         /\ MemoryUnchanged /\ EnvUnchanged
       ELSE IF ~reply.json THEN
         /\ Put(s, Reply(r, Failure("Unexpected token in JSON")))
         /\ MemoryUnchanged /\ EnvUnchanged
       ELSE
         LET data == AuthData(reply) IN
         /\ authToken' = data.token
         /\ currentUser' = data.user
         /\ \E w \in Writes(SetOutcomes([authToken |-> data.token, currentUser |-> data.user])) :
              /\ storage' = w.v
              /\ Put(s, [r EXCEPT !.pc = "ga_set", !.data = data, !.stored = w.ok])
         /\ UNCHANGED <<extensionEnabled, pageTitles, tabUrl, ui>>

\* The response of a finished authentication: built from the module-level
\* currentUser and authToken; currentUser.email throws on a missing user.
AuthResponse(r) ==
  IF ~r.stored THEN Failure("storage error")
  ELSE IF ~Present(currentUser) THEN Failure("Cannot read properties of undefined")
  ELSE Resp("success", Absent, currentUser, authToken, Absent)

\* After await chrome.storage.local.set(...).
GoogleAuthStored(s) ==
  /\ At(s, "ga_set")
  /\ Put(s, Reply(req[s], AuthResponse(req[s])))
  /\ MemoryUnchanged /\ EnvUnchanged

\* ----------------------------------------------------------------- logout

\* case 'logout': logout(sendResponse), up to await storage.local.remove.
Logout(s) ==
  /\ Free(s)
  /\ authToken' = Absent
  /\ currentUser' = Absent
  /\ \E w \in Writes({Removed({"authToken", "currentUser"})}) :
       /\ storage' = w.v
       /\ Put(s, [NewReq("logout", "lo_remove", Absent) EXCEPT !.stored = w.ok])
  /\ UNCHANGED <<extensionEnabled, pageTitles, tabUrl, ui>>

\* After the remove (and the revocation, whose errors are swallowed).
LogoutRemoved(s) ==
  /\ At(s, "lo_remove")
  /\ Put(s, Reply(req[s], IF req[s].stored THEN Success(Absent) ELSE Failure("storage error")))
  /\ MemoryUnchanged /\ EnvUnchanged

\* -------------------------------------------------------------- checkAuth

\* A forceAuthRefresh that drops the result of its auth check and returns.
AuthCheckDoneUnanswered(r, result) ==
  IF r.action = "forceAuthRefresh" THEN Finish(r) ELSE Reply(r, result)

\* sendResponse as checkAuthStatus and refreshSubscriptionStatus see it: the
\* message's callback, or the resolve that forceAuthRefresh passes, after
\* which forceAuthRefresh answers from authCheckResult.authenticated.
AuthCheckDone(r, result) ==
  IF r.action = "forceAuthRefresh"
    THEN Reply(r, IF result.kind = "authenticated"
                    THEN Resp("success", Absent, result.user, Absent, Absent)
                    ELSE Failure("Authentication expired"))
    ELSE Reply(r, result)

\* A checkAuthStatus without the guard on authToken and currentUser.
CheckAuthStartUnguarded(r) ==
  [Call(r, "auth/verify", Absent, TemplateBearer) EXCEPT !.pc = "ca_fetch"]

\* checkAuthStatus up to its fetch: no token or no user answers at once.
CheckAuthStart(r) ==
  IF ~Present(authToken) \/ ~Present(currentUser)
    THEN AuthCheckDone(r, NotAuthenticated)
    ELSE [Call(r, "auth/verify", Absent, TemplateBearer) EXCEPT !.pc = "ca_fetch"]

\* A checkAuthStatus that reads an unparsable 2xx body as a body without user.
VerifyThrewOnReject(reply) == IsRejected(reply)

\* The try block of checkAuthStatus throws: the fetch is rejected, or
\* response.json() fails on a 2xx body.
VerifyThrew(reply) == IsRejected(reply) \/ (IsOk(reply.status) /\ ~reply.json)

\* case 'checkAuth': checkAuthStatus(sendResponse)
CheckAuth(s) ==
  /\ Free(s)
  /\ Put(s, CheckAuthStart(NewReq("checkAuth", "start", Absent)))
  /\ MemoryUnchanged /\ EnvUnchanged

\* The verify call came back.
CheckAuthReplied(s) ==
  /\ At(s, "ca_fetch")
  /\ \E reply \in VerifyReplies :
       LET r == Got(req[s], reply) IN
       IF VerifyThrew(reply) THEN
         /\ Put(s, AuthCheckDone(r, NotAuthenticated))
         /\ MemoryUnchanged /\ EnvUnchanged
       ELSE IF IsOk(reply.status) THEN
         /\ currentUser' = reply.user
         /\ \E w \in Writes(SetOutcomes([currentUser |-> reply.user])) :
              /\ storage' = w.v
              /\ Put(s, [r EXCEPT !.pc = "ca_set", !.stored = w.ok])
         /\ UNCHANGED <<authToken, extensionEnabled, pageTitles, tabUrl, ui>>
       ELSE
         /\ authToken' = Absent
         /\ currentUser' = Absent
         /\ \E w \in Writes({Removed({"authToken", "currentUser"})}) :
              /\ storage' = w.v
              /\ Put(s, [r EXCEPT !.pc = "ca_remove", !.stored = w.ok])
         /\ UNCHANGED <<extensionEnabled, pageTitles, tabUrl, ui>>

\* After await storage.local.set({currentUser}): authenticated, with the
\* module-level currentUser; a failed write ends in the catch block.
CheckAuthStored(s) ==
  /\ At(s, "ca_set")
  /\ Put(s, AuthCheckDone(req[s],
                          IF req[s].stored
                            THEN Resp("authenticated", Absent, currentUser, Absent, Absent)
                            ELSE NotAuthenticated))
  /\ MemoryUnchanged /\ EnvUnchanged

\* After await storage.local.remove: not authenticated either way.
CheckAuthCleared(s) ==
  /\ At(s, "ca_remove")
  /\ Put(s, AuthCheckDone(req[s], NotAuthenticated))
  /\ MemoryUnchanged /\ EnvUnchanged


\* ----------------------------------------------------------- subscription

\* A forceAuthRefresh that hands the message's own sendResponse to
\* refreshSubscriptionStatus instead of a promise's resolve.
RefreshDoneAnswering(r, result) ==
  IF r.action = "forceAuthRefresh" THEN CheckAuthStart(Respond(r, result)) ELSE Reply(r, result)

\* A forceAuthRefresh that gives up when its subscription refresh failed.
RefreshDoneOrGiveUp(r, result) ==
  IF r.action # "forceAuthRefresh" THEN Reply(r, result)
  ELSE IF result.kind = "failure" THEN Reply(r, Failure("Failed to refresh authentication"))
  ELSE CheckAuthStart(r)

\* sendResponse as refreshSubscriptionStatus sees it: the message's callback,
\* or forceAuthRefresh's resolve, after which forceAuthRefresh goes on to
\* checkAuthStatus(resolve).
RefreshDone(r, result) ==
  IF r.action = "forceAuthRefresh" THEN CheckAuthStart(r) ELSE Reply(r, result)

\* The three subscription handlers up to their fetch.
SubscriptionStart(r, ep, pc) ==
  IF ~Present(authToken)
    THEN Reply(r, Failure("Not authenticated"))
    ELSE [Call(r, ep, r.arg, TemplateBearer) EXCEPT !.pc = pc]

\* if (response.ok) sendResponse(await response.json()) else throw; the catch
\* block answers with error.message.
SubscriptionResult(reply, message) ==
  IF IsRejected(reply) THEN Failure("Failed to fetch")
  ELSE IF IsOk(reply.status) THEN
    (IF reply.json THEN Resp("raw", Absent, Absent, Absent, reply.val)
     ELSE Failure("Unexpected token in JSON"))
  ELSE Failure(message)

\* case 'getSubscriptionStatus'
GetSubscriptionStatus(s) ==
  /\ Free(s)
  /\ Put(s, SubscriptionStart(NewReq("getSubscriptionStatus", "start", Absent),
                              "subscription/status", "gs_fetch"))
  /\ MemoryUnchanged /\ EnvUnchanged

GetSubscriptionReplied(s) ==
  /\ At(s, "gs_fetch")
  /\ \E reply \in DataReplies :
       Put(s, Reply(Got(req[s], reply),
                    SubscriptionResult(reply, "Failed to get subscription status")))
  /\ MemoryUnchanged /\ EnvUnchanged

\* case 'createCheckoutSession'
CreateCheckoutSession(s) ==
  /\ Free(s)
  /\ Put(s, SubscriptionStart(NewReq("createCheckoutSession", "start", "price"),
                              "subscription/create-checkout-session", "cc_fetch"))
  /\ MemoryUnchanged /\ EnvUnchanged

CreateCheckoutReplied(s) ==
  /\ At(s, "cc_fetch")
  /\ \E reply \in DataReplies :
       Put(s, Reply(Got(req[s], reply),
                    SubscriptionResult(reply, "Failed to create checkout session")))
  /\ MemoryUnchanged /\ EnvUnchanged

\* throw new Error(error.error || 'Failed to refresh subscription status'),
\* after await response.json() of the non-2xx body.
RefreshError(reply) ==
  IF ~reply.json THEN "Unexpected token in JSON"
  ELSE IF Present(reply.err) THEN reply.err
  ELSE "Failed to refresh subscription status"

\* case 'refreshSubscriptionStatus'
RefreshSubscriptionStatus(s) ==
  /\ Free(s)
  /\ Put(s, SubscriptionStart(NewReq("refreshSubscriptionStatus", "start", Absent),
                              "subscription/refresh", "rs_fetch"))
  /\ MemoryUnchanged /\ EnvUnchanged

\* The refresh call came back, to the message or to forceAuthRefresh.
RefreshReplied(s) ==
  /\ At(s, "rs_fetch")
  /\ \E reply \in DataReplies :
       Put(s, RefreshDone(Got(req[s], reply), SubscriptionResult(reply, RefreshError(reply))))
  /\ MemoryUnchanged /\ EnvUnchanged

\* ------------------------------------------------------- forceAuthRefresh

\* case 'forceAuthRefresh': up to await initializeExtensionState().
ForceAuthRefresh(s) ==
  /\ Free(s)
  /\ \E r \in StartReload(NewReq("forceAuthRefresh", "fa_reload", Absent), "fa_reload") :
       Put(s, r)
  /\ MemoryUnchanged /\ EnvUnchanged

\* A forceAuthRefresh that tests the token only.
NoTokenLoaded(tok, usr) == ~Present(tok)

\* if (!authToken || !currentUser) after the reload
NoSessionLoaded(tok, usr) == ~Present(tok) \/ ~Present(usr)

\* After the reload: without a token or a user it answers, with both it
\* starts refreshSubscriptionStatus(resolve).
ForceRefreshLoaded(s) ==
  /\ At(s, "fa_reload")
  /\ ApplyLoad(req[s].snap)
  /\ LET tok == LoadedToken(req[s].snap)
         usr == LoadedUser(req[s].snap)
     IN  IF NoSessionLoaded(tok, usr)
           THEN Put(s, Reply(req[s], Failure("Not authenticated")))
           ELSE Put(s, [Call(Loaded(req[s]), "subscription/refresh", Absent, tok)
                          EXCEPT !.pc = "rs_fetch"])
  /\ UNCHANGED <<pageTitles, storage, tabUrl, ui>>


\* ---------------------------------------------------------- summarizePage

\* POST /api/summarize
SummarizeReplies ==
  {Rejected, Response(200, TRUE, TRUE, Absent, Absent, Absent, "S")}
    \cup {NotJson(st) : st \in Statuses} \cup ErrorBodies

\* A replay branch taken on any non-2xx status.
ShouldReplayOnError(status, retryCount) == ~IsOk(status) /\ retryCount = 0

\* A 401 branch that does not look at retryCount.
ShouldReplayAlways(status, retryCount) == status = Unauthorized

\* if (response.status === 401 && retryCount === 0)
ShouldReplay(status, retryCount) == status = Unauthorized /\ retryCount = 0

\* The retryCount the replay is called with: handleSummarizePage(request,
\* sendResponse, 1), saveUserPreferences(preferences, sendResponse, 1).
ReplayCount == 1

\* A 401 branch that replays without calling initializeExtensionState.
ReplayWithoutReload(r, pc) == {[r EXCEPT !.pc = pc]}

\* The 401 branch: await initializeExtensionState(), then the replay; the
\* branch returns without answering.
ReplayBranch(r, pc) == StartReload(r, pc)

\* throw new Error(error.error || `Backend service error (${status})`)
BackendError(reply) == IF Present(reply.err) THEN reply.err ELSE "Backend service error"

\* The fields of a summarize body that a response can carry.
SummaryFields == {"summary", "summary_data", "is_article"}

\* A success response of handleSummarizePage that leaves summary_data out.
PageFieldsWithoutData == {"summary", "is_article"}

\* sendResponse({success: true, summary: data.summary,
\*               summary_data: data.summary_data, is_article: data.is_article})
PageFields == {"summary", "summary_data", "is_article"}

\* sendResponse({success: true, summary: data.summary,
\*               is_article: data.is_article}) in handleSummarizeHTML
HTMLFields == {"summary", "is_article"}

\* The part of the body val that a response built from these fields holds.
Picked(val, fields) ==
  IF ~Present(val) \/ fields = SummaryFields THEN val ELSE val \o ".summary.is_article"

\* The content-type check, the non-2xx branch and the success response of
\* handleSummarizePage and handleSummarizeHTML.
SummaryResult(reply, fields) ==
  IF IsRejected(reply) THEN Failure("Network error")
  ELSE IF ~reply.json THEN Failure("Backend returned non-JSON response")
  ELSE IF ~IsOk(reply.status) THEN Failure(BackendError(reply))
  ELSE Success(Picked(reply.val, fields))

\* A lookup of one fixed tab, whichever request asks.
SomeTab(r) == CHOOSE t \in DOMAIN tabUrl : TRUE

\* tab = await chrome.tabs.get(request.tabId)
RequestTab(r) == r.arg

\* case 'summarizePage': handleSummarizePage(request, sendResponse)
SummarizePage(s, t) ==
  /\ Free(s)
  /\ Put(s, NewReq("summarizePage", "sp_tab", t))
  /\ MemoryUnchanged /\ EnvUnchanged

\* After storage.local.get(['backendUrl']) and chrome.tabs.get(tabId): the
\* tab's url as it is now becomes the body, the token as it is now the header.
SummarizeTab(s) ==
  /\ At(s, "sp_tab")
  /\ LET url == tabUrl[RequestTab(req[s])] IN
       IF url = "closed" THEN Put(s, Reply(req[s], Failure("Unable to get current tab URL")))
       ELSE IF url = "nourl" THEN Put(s, Reply(req[s], Failure("Tab URL is not available")))
       ELSE Put(s, [Call(req[s], "summarize", url, OptionalBearer) EXCEPT !.pc = "sp_fetch"])
  /\ MemoryUnchanged /\ EnvUnchanged

\* The summarize call came back.
SummarizeReplied(s) ==
  /\ At(s, "sp_fetch")
  /\ \E reply \in SummarizeReplies :
       LET r == Got(req[s], reply) IN
       IF ~IsRejected(reply) /\ ShouldReplay(reply.status, r.retryCount)
         THEN \E r2 \in ReplayBranch(r, "sp_reload") : Put(s, r2)
         ELSE Put(s, Reply(r, SummaryResult(reply, PageFields)))
  /\ MemoryUnchanged /\ EnvUnchanged

\* After await initializeExtensionState(): handleSummarizePage(request,
\* sendResponse, 1) runs up to its storage read.
SummarizeReloaded(s) ==
  /\ At(s, "sp_reload")
  /\ ApplyLoad(req[s].snap)
  /\ Put(s, [Loaded(req[s]) EXCEPT !.pc = "sp_tab", !.retryCount = ReplayCount])
  /\ UNCHANGED <<pageTitles, storage, tabUrl, ui>>

\* ---------------------------------------------------------- summarizeHTML

\* case 'summarizeHTML': a request without html is answered at once.
SummarizeHTML(s, html) ==
  /\ Free(s)
  /\ Put(s, IF html = Absent
              THEN Reply(NewReq("summarizeHTML", "start", html),
                         Failure("No HTML content provided"))
              ELSE NewReq("summarizeHTML", "sh_get", html))
  /\ MemoryUnchanged /\ EnvUnchanged

SummarizeHTMLFetch(s) ==
  /\ At(s, "sh_get")
  /\ Put(s, [Call(req[s], "summarize", req[s].arg, OptionalBearer) EXCEPT !.pc = "sh_fetch"])
  /\ MemoryUnchanged /\ EnvUnchanged

SummarizeHTMLReplied(s) ==
  /\ At(s, "sh_fetch")
  /\ \E reply \in SummarizeReplies :
       Put(s, Reply(Got(req[s], reply), SummaryResult(reply, HTMLFields)))
  /\ MemoryUnchanged /\ EnvUnchanged

\* ------------------------------------------------------------ testBackend

\* case 'testBackend': the fetch is issued at once, without a token.
TestBackend(s) ==
  /\ Free(s)
  /\ Put(s, [Call(NewReq("testBackend", "start", Absent), "test", "test", "none")
               EXCEPT !.pc = "tb_fetch"])
  /\ MemoryUnchanged /\ EnvUnchanged

\* JSON.parse(await response.text()), whatever the status.
TestResult(reply) ==
  IF IsRejected(reply) THEN Failure("Failed to fetch")
  ELSE IF ~reply.json THEN Failure("Invalid JSON response")
  ELSE Success(reply.val)

TestBackendReplied(s) ==
  /\ At(s, "tb_fetch")
  /\ \E reply \in DataReplies : Put(s, Reply(Got(req[s], reply), TestResult(reply)))
  /\ MemoryUnchanged /\ EnvUnchanged

\* ------------------------------------------------------------ preferences

\* POST and GET /api/preferences, POST /api/feedback: the body carries
\* success, error and (for preferences) the preferences.
EnvelopeReplies ==
  {Rejected, NotJson(200), NotJson(Unauthorized),
   Response(200, TRUE, FALSE, Absent, Absent, Absent, Absent)}
    \cup {Response(200, TRUE, TRUE, Absent, Absent, Absent, v) : v \in PrefValues \cup {Absent}}
    \cup ErrorBodies

\* const data = await response.json(); if (response.ok && data.success) ...
\* else data.error || fallback; the catch block answers with the network text.
EnvelopeResult(reply, val, fallback, network) ==
  IF IsRejected(reply) \/ ~reply.json THEN Failure(network)
  ELSE IF IsOk(reply.status) /\ reply.success THEN Success(val)
  ELSE Failure(IF Present(reply.err) THEN reply.err ELSE fallback)

\* saveUserPreferences up to its storage read: no token answers at once.
SaveStart(r) ==
  IF ~Present(authToken)
    THEN Reply(r, Failure("Authentication required to save preferences"))
    ELSE [r EXCEPT !.pc = "sv_get"]

\* case 'savePreferences': saveUserPreferences(request.preferences, sendResponse)
SavePreferences(s, p) ==
  /\ Free(s)
  /\ Put(s, SaveStart(NewReq("savePreferences", "start", p)))
  /\ MemoryUnchanged /\ EnvUnchanged

\* After storage.local.get(['backendUrl']): the POST, with the token as it
\* is now.
SaveFetch(s) ==
  /\ At(s, "sv_get")
  /\ Put(s, [Call(req[s], "preferences", req[s].arg, TemplateBearer) EXCEPT !.pc = "sv_fetch"])
  /\ MemoryUnchanged /\ EnvUnchanged

SaveReplied(s) ==
  /\ At(s, "sv_fetch")
  /\ \E reply \in EnvelopeReplies :
       LET r == Got(req[s], reply) IN
       IF ~IsRejected(reply) /\ ShouldReplay(reply.status, r.retryCount)
         THEN \E r2 \in ReplayBranch(r, "sv_reload") : Put(s, r2)
         ELSE Put(s, Reply(r, EnvelopeResult(reply, reply.val, "Failed to save preferences",
                                             "Network error while saving preferences")))
  /\ MemoryUnchanged /\ EnvUnchanged

\* After await initializeExtensionState(): saveUserPreferences(preferences,
\* sendResponse, 1) tests the token just loaded.
SaveReloaded(s) ==
  /\ At(s, "sv_reload")
  /\ ApplyLoad(req[s].snap)
  /\ Put(s, IF ~Present(LoadedToken(req[s].snap))
              THEN Reply(req[s], Failure("Authentication required to save preferences"))
              ELSE [Loaded(req[s]) EXCEPT !.pc = "sv_get", !.retryCount = ReplayCount])
  /\ UNCHANGED <<pageTitles, storage, tabUrl, ui>>

\* The fields of the preferences record the UI posts and the backend returns.
PrefFields ==
  {"summary_style", "auto_summarize_enabled", "notifications_enabled",
   "reader_type", "reading_level"}

\* The fields loadUserPreferences copies, as summaryStyle,
\* autoSummarizeEnabled and notificationsEnabled, into its response and into
\* the cache.
CopiedFields == {"summary_style", "auto_summarize_enabled", "notifications_enabled"}

\* The object loadUserPreferences builds from the backend's preferences v.
Copied(v) == IF Present(v) THEN v \o ".copied" ELSE v

\* The fields of the backend's record v whose values the value val holds.
FieldsCarried(val, v) ==
  IF val = v THEN PrefFields ELSE IF val = Copied(v) THEN CopiedFields ELSE {}

\* A cache write that replaces the whole store by the one key.
CacheSetAlone(v) == [EmptyStorage EXCEPT !.prefsCache = v]

\* chrome.storage.local.set({userPreferences: ...}): the other keys stay.
CacheSet(v) == [storage EXCEPT !.prefsCache = v]

\* case 'loadPreferences': loadUserPreferences(sendResponse)
LoadPreferences(s) ==
  /\ Free(s)
  /\ Put(s, IF ~Present(authToken)
              THEN Reply(NewReq("loadPreferences", "start", Absent),
                         Failure("Authentication required to load preferences"))
              ELSE NewReq("loadPreferences", "lp_get", Absent))
  /\ MemoryUnchanged /\ EnvUnchanged

LoadFetch(s) ==
  /\ At(s, "lp_get")
  /\ Put(s, [Call(req[s], "preferences", Absent, TemplateBearer) EXCEPT !.pc = "lp_fetch"])
  /\ MemoryUnchanged /\ EnvUnchanged

\* A cache write that stores data.preferences as the backend sent it.
CachedAsSent(reply) == reply.val

\* chrome.storage.local.set({summaryStyle: data.preferences.summary_style,
\* autoSummarizeEnabled: ..., notificationsEnabled: ...}): what is cached.
Cached(reply) == Copied(reply.val)

\* On success the preferences are cached with storage.local.set, which is
\* not awaited, and returned; data.preferences.summary_style throws when the
\* body has no preferences.
LoadReplied(s) ==
  /\ At(s, "lp_fetch")
  /\ \E reply \in EnvelopeReplies :
       LET r == Got(req[s], reply)
           cached == ~IsRejected(reply) /\ reply.json /\ IsOk(reply.status) /\ reply.success
       IN  IF cached /\ ~Present(reply.val)
             THEN /\ Put(s, Reply(r, Failure("Network error while loading preferences")))
                  /\ UNCHANGED storage
             ELSE /\ Put(s, Reply(r, EnvelopeResult(reply, Copied(reply.val),
                                                    "Failed to load preferences",
                                                    "Network error while loading preferences")))
                  /\ IF cached
                       THEN \E w \in Writes({CacheSet(Cached(reply))}) :
                              storage' = w.v
                       ELSE UNCHANGED storage
  /\ MemoryUnchanged /\ UNCHANGED <<tabUrl, ui>>

\* ----------------------------------------------------------- sendFeedback

\* case 'sendFeedback': sendFeedback(request.feedback, sendResponse)
SendFeedback(s) ==
  /\ Free(s)
  /\ Put(s, IF ~Present(authToken)
              THEN Reply(NewReq("sendFeedback", "start", "feedback"),
                         Failure("Authentication required"))
              ELSE NewReq("sendFeedback", "fb_get", "feedback"))
  /\ MemoryUnchanged /\ EnvUnchanged

FeedbackFetch(s) ==
  /\ At(s, "fb_get")
  /\ Put(s, [Call(req[s], "feedback", req[s].arg, TemplateBearer) EXCEPT !.pc = "fb_fetch"])
  /\ MemoryUnchanged /\ EnvUnchanged

FeedbackReplied(s) ==
  /\ At(s, "fb_fetch")
  /\ \E reply \in EnvelopeReplies :
       Put(s, Reply(Got(req[s], reply),
                    EnvelopeResult(reply, Absent, "Failed to send feedback",
                                   "Network error while sending feedback")))
  /\ MemoryUnchanged /\ EnvUnchanged

\* ------------------------------------------------------------------- Next

Next ==
  \/ \E s \in DOMAIN req : Retire(s)
  \/ \E s \in DOMAIN req : OnStartup(s)
  \/ \E s \in DOMAIN req : OnClicked(s)
  \/ \E s \in DOMAIN req : InitLoaded(s)
  \/ Restart
  \/ \E t \in Tabs : Navigate(t)
  \/ \E t \in Tabs : TabLoading(t)
  \/ \E t \in Tabs : TabRemoved(t)
  \/ \E b \in BOOLEAN : SurfaceStoresEnabled(b)
  \/ \E s \in DOMAIN req, b \in BOOLEAN : ToggleExtension(s, b)
  \/ \E s \in DOMAIN req, t \in Tabs : PageLoaded(s, t)
  \/ \E s \in DOMAIN req : CheckEnabled(s)
  \/ \E s \in DOMAIN req, a \in UnknownActions : Unrecognized(s, a)
  \/ \E s \in DOMAIN req : GoogleAuth(s)
  \/ \E s \in DOMAIN req : GoogleIdentity(s)
  \/ \E s \in DOMAIN req : GoogleAuthReplied(s)
  \/ \E s \in DOMAIN req : GoogleAuthStored(s)
  \/ \E s \in DOMAIN req : Logout(s)
  \/ \E s \in DOMAIN req : LogoutRemoved(s)
  \/ \E s \in DOMAIN req : CheckAuth(s)
  \/ \E s \in DOMAIN req : CheckAuthReplied(s)
  \/ \E s \in DOMAIN req : CheckAuthStored(s)
  \/ \E s \in DOMAIN req : CheckAuthCleared(s)
  \/ \E s \in DOMAIN req : GetSubscriptionStatus(s)
  \/ \E s \in DOMAIN req : GetSubscriptionReplied(s)
  \/ \E s \in DOMAIN req : CreateCheckoutSession(s)
  \/ \E s \in DOMAIN req : CreateCheckoutReplied(s)
  \/ \E s \in DOMAIN req : RefreshSubscriptionStatus(s)
  \/ \E s \in DOMAIN req : RefreshReplied(s)
  \/ \E s \in DOMAIN req : ForceAuthRefresh(s)
  \/ \E s \in DOMAIN req : ForceRefreshLoaded(s)
  \/ \E s \in DOMAIN req, t \in Tabs : SummarizePage(s, t)
  \/ \E s \in DOMAIN req : SummarizeTab(s)
  \/ \E s \in DOMAIN req : SummarizeReplied(s)
  \/ \E s \in DOMAIN req : SummarizeReloaded(s)
  \/ \E s \in DOMAIN req, h \in {Absent, "html"} : SummarizeHTML(s, h)
  \/ \E s \in DOMAIN req : SummarizeHTMLFetch(s)
  \/ \E s \in DOMAIN req : SummarizeHTMLReplied(s)
  \/ \E s \in DOMAIN req : TestBackend(s)
  \/ \E s \in DOMAIN req : TestBackendReplied(s)
  \/ \E s \in DOMAIN req, p \in PrefValues : SavePreferences(s, p)
  \/ \E s \in DOMAIN req : SaveFetch(s)
  \/ \E s \in DOMAIN req : SaveReplied(s)
  \/ \E s \in DOMAIN req : SaveReloaded(s)
  \/ \E s \in DOMAIN req : LoadPreferences(s)
  \/ \E s \in DOMAIN req : LoadFetch(s)
  \/ \E s \in DOMAIN req : LoadReplied(s)
  \/ \E s \in DOMAIN req : SendFeedback(s)
  \/ \E s \in DOMAIN req : FeedbackFetch(s)
  \/ \E s \in DOMAIN req : FeedbackReplied(s)

Spec == Init /\ [][Next]_vars


SessionNext ==
  \/ \E s \in DOMAIN req : Retire(s)
  \/ \E s \in DOMAIN req : OnStartup(s)
  \/ \E s \in DOMAIN req : OnClicked(s)
  \/ \E s \in DOMAIN req : InitLoaded(s)
  \/ Restart
  \/ \E s \in DOMAIN req : GoogleAuth(s)
  \/ \E s \in DOMAIN req : GoogleIdentity(s)
  \/ \E s \in DOMAIN req : GoogleAuthReplied(s)
  \/ \E s \in DOMAIN req : GoogleAuthStored(s)
  \/ \E s \in DOMAIN req : Logout(s)
  \/ \E s \in DOMAIN req : LogoutRemoved(s)
  \/ \E s \in DOMAIN req : CheckAuth(s)
  \/ \E s \in DOMAIN req : CheckAuthReplied(s)
  \/ \E s \in DOMAIN req : CheckAuthStored(s)
  \/ \E s \in DOMAIN req : CheckAuthCleared(s)
  \/ \E s \in DOMAIN req : RefreshReplied(s)
  \/ \E s \in DOMAIN req : ForceAuthRefresh(s)
  \/ \E s \in DOMAIN req : ForceRefreshLoaded(s)

SessionSpec == SessionInit /\ [][SessionNext]_vars

ReplayNext ==
  \/ \E s \in DOMAIN req : Retire(s)
  \/ \E t \in Tabs : Navigate(t)
  \/ \E s \in DOMAIN req : GoogleAuth(s)
  \/ \E s \in DOMAIN req : GoogleIdentity(s)
  \/ \E s \in DOMAIN req : GoogleAuthReplied(s)
  \/ \E s \in DOMAIN req : GoogleAuthStored(s)
  \/ \E s \in DOMAIN req : Logout(s)
  \/ \E s \in DOMAIN req : LogoutRemoved(s)
  \/ \E s \in DOMAIN req, t \in Tabs : SummarizePage(s, t)
  \/ \E s \in DOMAIN req : SummarizeTab(s)
  \/ \E s \in DOMAIN req : SummarizeReplied(s)
  \/ \E s \in DOMAIN req : SummarizeReloaded(s)
  \/ \E s \in DOMAIN req, p \in PrefValues : SavePreferences(s, p)
  \/ \E s \in DOMAIN req : SaveFetch(s)
  \/ \E s \in DOMAIN req : SaveReplied(s)
  \/ \E s \in DOMAIN req : SaveReloaded(s)

ReplaySpec == SessionInit /\ [][ReplayNext]_vars


\* Two summarizePage requests in flight at once, for two tabs that show
\* different pages.
PairTabs == {"tab1", "tab2"}

PairInit ==
  /\ authToken = Absent
  /\ currentUser = Absent
  /\ extensionEnabled = TRUE
  /\ pageTitles = {}
  /\ storage = EmptyStorage
  /\ tabUrl = [t \in PairTabs |-> IF t = "tab1" THEN "a" ELSE "b"]
  /\ ui = NoUi
  /\ req = [s \in 1..MaxReq |-> IdleReq]

PairNext ==
  \/ \E s \in DOMAIN req : Retire(s)
  \/ \E s \in DOMAIN req, t \in PairTabs : SummarizePage(s, t)
  \/ \E s \in DOMAIN req : SummarizeTab(s)
  \/ \E s \in DOMAIN req : SummarizeReplied(s)
  \/ \E s \in DOMAIN req : SummarizeReloaded(s)

PairSpec == PairInit /\ [][PairNext]_vars



\* Every caller of initializeExtensionState, one invocation at a time: the
\* startup and icon-click events, the two handlers with a 401 branch and
\* forceAuthRefresh, with the sign-in that gives them a session to load.
LoadNext ==
  \/ \E s \in DOMAIN req : Retire(s)
  \/ \E s \in DOMAIN req : OnStartup(s)
  \/ \E s \in DOMAIN req : OnClicked(s)
  \/ \E s \in DOMAIN req : InitLoaded(s)
  \/ Restart
  \/ \E b \in BOOLEAN : SurfaceStoresEnabled(b)
  \/ \E s \in DOMAIN req : GoogleAuth(s)
  \/ \E s \in DOMAIN req : GoogleIdentity(s)
  \/ \E s \in DOMAIN req : GoogleAuthReplied(s)
  \/ \E s \in DOMAIN req : GoogleAuthStored(s)
  \/ \E s \in DOMAIN req, t \in Tabs : SummarizePage(s, t)
  \/ \E s \in DOMAIN req : SummarizeTab(s)
  \/ \E s \in DOMAIN req : SummarizeReplied(s)
  \/ \E s \in DOMAIN req : SummarizeReloaded(s)
  \/ \E s \in DOMAIN req, p \in PrefValues : SavePreferences(s, p)
  \/ \E s \in DOMAIN req : SaveFetch(s)
  \/ \E s \in DOMAIN req : SaveReplied(s)
  \/ \E s \in DOMAIN req : SaveReloaded(s)
  \/ \E s \in DOMAIN req : ForceAuthRefresh(s)
  \/ \E s \in DOMAIN req : ForceRefreshLoaded(s)
  \/ \E s \in DOMAIN req : RefreshReplied(s)
  \/ \E s \in DOMAIN req : CheckAuthReplied(s)
  \/ \E s \in DOMAIN req : CheckAuthStored(s)
  \/ \E s \in DOMAIN req : CheckAuthCleared(s)

LoadSpec == Init /\ [][LoadNext]_vars

\* ------------------------------------------------------------- fair runs

\* The continuation of the invocation in slot s: the storage or network
\* operation it waits for completes or fails.
Continue(s) ==
  \/ InitLoaded(s)
  \/ GoogleIdentity(s) \/ GoogleAuthReplied(s) \/ GoogleAuthStored(s)
  \/ LogoutRemoved(s)
  \/ CheckAuthReplied(s) \/ CheckAuthStored(s) \/ CheckAuthCleared(s)
  \/ GetSubscriptionReplied(s) \/ CreateCheckoutReplied(s) \/ RefreshReplied(s)
  \/ ForceRefreshLoaded(s)
  \/ SummarizeTab(s) \/ SummarizeReplied(s) \/ SummarizeReloaded(s)
  \/ SummarizeHTMLFetch(s) \/ SummarizeHTMLReplied(s)
  \/ TestBackendReplied(s)
  \/ SaveFetch(s) \/ SaveReplied(s) \/ SaveReloaded(s)
  \/ LoadFetch(s) \/ LoadReplied(s)
  \/ FeedbackFetch(s) \/ FeedbackReplied(s)

\* The messages with an I/O handler, the continuations, and the tab events
\* that decide what summarizePage finds.
LiveNext ==
  \/ \E s \in DOMAIN req : Retire(s)
  \/ \E t \in Tabs : Navigate(t)
  \/ \E t \in Tabs : TabLoading(t)
  \/ \E t \in Tabs : TabRemoved(t)
  \/ \E s \in DOMAIN req : GoogleAuth(s)
  \/ \E s \in DOMAIN req : Logout(s)
  \/ \E s \in DOMAIN req : CheckAuth(s)
  \/ \E s \in DOMAIN req : GetSubscriptionStatus(s)
  \/ \E s \in DOMAIN req : CreateCheckoutSession(s)
  \/ \E s \in DOMAIN req : RefreshSubscriptionStatus(s)
  \/ \E s \in DOMAIN req : ForceAuthRefresh(s)
  \/ \E s \in DOMAIN req, t \in Tabs : SummarizePage(s, t)
  \/ \E s \in DOMAIN req, h \in {Absent, "html"} : SummarizeHTML(s, h)
  \/ \E s \in DOMAIN req : TestBackend(s)
  \/ \E s \in DOMAIN req, p \in PrefValues : SavePreferences(s, p)
  \/ \E s \in DOMAIN req : LoadPreferences(s)
  \/ \E s \in DOMAIN req : SendFeedback(s)
  \/ \E s \in DOMAIN req : Continue(s)

\* A handler that has nothing left to run returns, and every operation a
\* handler waits for eventually completes or fails, whatever other messages
\* the worker handles in the meantime.
LiveSpec ==
  /\ Init
  /\ [][LiveNext]_vars
  /\ \A s \in 1..MaxRouterReq : WF_vars(Retire(s)) /\ SF_vars(Continue(s))

\* Every message the listener can get and every continuation of a handler,
\* one invocation at a time, with the tabs as they are at the start.
RouterNext ==
  \/ \E s \in DOMAIN req : Retire(s)
  \/ \E s \in DOMAIN req, b \in BOOLEAN : ToggleExtension(s, b)
  \/ \E s \in DOMAIN req, t \in Tabs : PageLoaded(s, t)
  \/ \E s \in DOMAIN req : CheckEnabled(s)
  \/ \E s \in DOMAIN req, a \in UnknownActions : Unrecognized(s, a)
  \/ \E s \in DOMAIN req : GoogleAuth(s)
  \/ \E s \in DOMAIN req : Logout(s)
  \/ \E s \in DOMAIN req : CheckAuth(s)
  \/ \E s \in DOMAIN req : GetSubscriptionStatus(s)
  \/ \E s \in DOMAIN req : CreateCheckoutSession(s)
  \/ \E s \in DOMAIN req : RefreshSubscriptionStatus(s)
  \/ \E s \in DOMAIN req : ForceAuthRefresh(s)
  \/ \E s \in DOMAIN req, t \in Tabs : SummarizePage(s, t)
  \/ \E s \in DOMAIN req, h \in {Absent, "html"} : SummarizeHTML(s, h)
  \/ \E s \in DOMAIN req : TestBackend(s)
  \/ \E s \in DOMAIN req, p \in PrefValues : SavePreferences(s, p)
  \/ \E s \in DOMAIN req : LoadPreferences(s)
  \/ \E s \in DOMAIN req : SendFeedback(s)
  \/ \E s \in DOMAIN req : Continue(s)

RouterSpec == Init /\ [][RouterNext]_vars


\* Everything that reads or writes extensionEnabled, one invocation at a
\* time: the side panel's toggle, the loads, the worker's restart, and the
\* messages answered from the flag.
EnabledNext ==
  \/ \E s \in DOMAIN req : Retire(s)
  \/ \E s \in DOMAIN req : OnStartup(s)
  \/ \E s \in DOMAIN req : OnClicked(s)
  \/ \E s \in DOMAIN req : InitLoaded(s)
  \/ Restart
  \/ \E b \in BOOLEAN : SurfaceStoresEnabled(b)
  \/ \E s \in DOMAIN req, b \in BOOLEAN : ToggleExtension(s, b)
  \/ \E s \in DOMAIN req, t \in Tabs : PageLoaded(s, t)
  \/ \E s \in DOMAIN req : CheckEnabled(s)
  \/ \E s \in DOMAIN req : ForceAuthRefresh(s)
  \/ \E s \in DOMAIN req : ForceRefreshLoaded(s)

EnabledSpec == Init /\ [][EnabledNext]_vars



\* ------------------------------------------------- the side panel's button

\* The summarize button's click handler and the callbacks nested in it.  pc
\* is the message whose callback the click waits for; tab is tabs[0].id of
\* the handler's closure; msgs and calls count, for the click in progress, the
\* summarizePage messages sent and the backend calls the worker made for
\* them; firstError is errorMsg of the first callback; refreshed tells that
\* the forceAuthRefresh callback took its success branch.
PanelIdle ==
  [pc |-> "idle", tab |-> Absent, disabled |-> FALSE, isAuthenticated |-> TRUE,
   msgs |-> 0, calls |-> 0, firstError |-> Absent, refreshed |-> FALSE]

PanelTokenErrors == {"Authorization token required", "Token has expired", "Invalid token"}

\* errorMsg.includes('Authorization token required') ||
\* errorMsg.includes('Token has expired') || errorMsg.includes('Invalid token')
TokenError(errorMsg) == errorMsg \in PanelTokenErrors

\* The panel as the retry's callback leaves it, when that callback asks for
\* another refresh after a token error.
AfterRetryAgain(u, r) ==
  IF r.nresp > 0 /\ r.resp.kind = "failure" /\ TokenError(r.resp.err)
    THEN [u EXCEPT !.pc = "refresh", !.disabled = FALSE, !.calls = @ + r.ncalls]
    ELSE [u EXCEPT !.pc = "idle", !.disabled = FALSE, !.calls = @ + r.ncalls]

\* function(retryResponse): the button is enabled again and the summary or
\* the error is shown; no message is sent.
AfterRetry(u, r) == [u EXCEPT !.pc = "idle", !.disabled = FALSE, !.calls = @ + r.ncalls]

\* The worker is ready for the panel's next message.
WorkerIdle == \A s \in DOMAIN req : req[s].pc = "idle"

\* The invocation in slot s has returned: its response, if any, reaches the
\* panel's callback and the invocation is over.
Answered(s, action) == req[s].pc = "done" /\ req[s].action = action

PanelUnchanged == UNCHANGED <<authToken, currentUser, extensionEnabled, pageTitles, storage, tabUrl>>

\* A click while signed out: the handler shows a message and returns.
PanelClickSignedOut ==
  /\ ui.pc = "idle" /\ ~ui.disabled /\ ~ui.isAuthenticated
  /\ ui' = [ui EXCEPT !.tab = Absent, !.msgs = 0, !.calls = 0, !.firstError = Absent,
                      !.refreshed = FALSE]
  /\ UNCHANGED req /\ PanelUnchanged

\* A click while signed in: chrome.tabs.query finds no tab and the handler
\* returns, or it finds tab t, disables the button and sends summarizePage.
PanelClick(t) ==
  /\ ui.pc = "idle" /\ ~ui.disabled /\ ui.isAuthenticated
  /\ IF t = Absent
       THEN ui' = [ui EXCEPT !.tab = Absent, !.msgs = 0, !.calls = 0,
                             !.firstError = Absent, !.refreshed = FALSE]
       ELSE ui' = [ui EXCEPT !.pc = "first", !.tab = t, !.disabled = TRUE, !.msgs = 1,
                             !.calls = 0, !.firstError = Absent, !.refreshed = FALSE]
  /\ UNCHANGED req /\ PanelUnchanged

\* The worker's listener gets the summarizePage message the panel sent.
PanelSummarizeDelivered(s) ==
  /\ ui.pc \in {"first", "second"} /\ WorkerIdle
  /\ SummarizePage(s, ui.tab)

\* The worker's listener gets the forceAuthRefresh message the panel sent.
PanelRefreshDelivered(s) ==
  /\ ui.pc = "refresh" /\ WorkerIdle
  /\ ForceAuthRefresh(s)

\* function(response) of the first summarizePage: the button is enabled; a
\* failure whose message is a token error sends forceAuthRefresh, anything
\* else is shown.
PanelFirstAnswered(s) ==
  /\ ui.pc = "first" /\ Answered(s, "summarizePage")
  /\ LET r == req[s]
         errorMsg == IF Present(r.resp.err) THEN r.resp.err ELSE "Summary failed" IN
       IF r.nresp > 0 /\ r.resp.kind # "success" /\ TokenError(errorMsg)
         THEN ui' = [ui EXCEPT !.pc = "refresh", !.disabled = FALSE, !.calls = @ + r.ncalls,
                               !.firstError = errorMsg]
         ELSE ui' = [ui EXCEPT !.pc = "idle", !.disabled = FALSE, !.calls = @ + r.ncalls,
                               !.firstError = IF r.nresp > 0 /\ r.resp.kind # "success"
                                                THEN errorMsg ELSE Absent]
  /\ req' = [req EXCEPT ![s] = IdleReq]
  /\ PanelUnchanged

\* function(refreshResponse): after a success the panel builds the second
\* summarizePage message, whose customPrompt names an identifier this file
\* never declares: the message is sent if the page defines it and the
\* callback throws if not.  Anything but a success signs the panel out.
PanelRefreshAnswered(s) ==
  /\ ui.pc = "refresh" /\ Answered(s, "forceAuthRefresh")
  /\ LET r == req[s] IN
       IF r.nresp > 0 /\ r.resp.kind = "success"
         THEN \E customPromptDefined \in BOOLEAN :
                ui' = IF customPromptDefined
                        THEN [ui EXCEPT !.pc = "second", !.msgs = @ + 1, !.refreshed = TRUE]
                        ELSE [ui EXCEPT !.pc = "idle", !.refreshed = TRUE]
         ELSE ui' = [ui EXCEPT !.pc = "idle", !.disabled = FALSE, !.isAuthenticated = FALSE]
  /\ req' = [req EXCEPT ![s] = IdleReq]
  /\ PanelUnchanged

\* function(retryResponse) of the second summarizePage.
PanelRetryAnswered(s) ==
  /\ ui.pc = "second" /\ Answered(s, "summarizePage")
  /\ ui' = AfterRetry(ui, req[s])
  /\ req' = [req EXCEPT ![s] = IdleReq]
  /\ PanelUnchanged

\* The panel is open on a signed-in user whose session is in storage.
PanelInit ==
  /\ authToken = "t1"
  /\ currentUser = "u1"
  /\ extensionEnabled = TRUE
  /\ pageTitles = {}
  /\ storage = [EmptyStorage EXCEPT !.authToken = "t1", !.currentUser = "u1"]
  /\ tabUrl = [t \in Tabs |-> "a"]
  /\ req = [s \in 1..MaxRouterReq |-> IdleReq]
  /\ ui = PanelIdle

\* Clicks on the summarize button, one at a time, the worker's handling of
\* the messages they send, and the tab events in between.
PanelNext ==
  \/ PanelClickSignedOut
  \/ \E t \in Tabs \cup {Absent} : PanelClick(t)
  \/ \E s \in DOMAIN req : PanelSummarizeDelivered(s)
  \/ \E s \in DOMAIN req : PanelRefreshDelivered(s)
  \/ \E s \in DOMAIN req : PanelFirstAnswered(s)
  \/ \E s \in DOMAIN req : PanelRefreshAnswered(s)
  \/ \E s \in DOMAIN req : PanelRetryAnswered(s)
  \/ \E t \in Tabs : Navigate(t)
  \/ \E t \in Tabs : TabRemoved(t)
  \/ \E s \in DOMAIN req : SummarizeTab(s)
  \/ \E s \in DOMAIN req : SummarizeReplied(s)
  \/ \E s \in DOMAIN req : SummarizeReloaded(s)
  \/ \E s \in DOMAIN req : ForceRefreshLoaded(s)
  \/ \E s \in DOMAIN req : RefreshReplied(s)
  \/ \E s \in DOMAIN req : CheckAuthReplied(s)
  \/ \E s \in DOMAIN req : CheckAuthStored(s)
  \/ \E s \in DOMAIN req : CheckAuthCleared(s)

PanelSpec == PanelInit /\ [][PanelNext]_vars


\* ---------------------------------------------- the side panel's checkout

\* if (checkCount > 60)
MaxChecks == 60

\* startSubscription and the callbacks nested in it, one run at a time.  pc
\* is "sent" while createCheckoutSession has no callback yet; disabled is the
\* subscribe button's; timeout is the 10-second timer; message is what
\* messageDiv shows; responded tells that function(response) ran; interval is
\* checkInterval; checkCount stops counting one past MaxChecks, from where on
\* the handler's test no longer changes; refreshes and statuses are the
\* refreshSubscriptionStatus and getSubscriptionStatus messages without a
\* callback yet; reloading is the timer that ends in location.reload().
CheckoutIdle ==
  [pc |-> "idle", disabled |-> FALSE, timeout |-> "none", message |-> "none",
   responded |-> FALSE, interval |-> "none", checkCount |-> 0,
   refreshes |-> 0, statuses |-> 0, reloading |-> FALSE]

\* What function(response) can be called with: chrome.runtime.lastError set,
\* nothing, or the body the worker passed on from the backend.
CheckoutAnswers == {"runtimeError", "empty", "success", "failure"}

\* What function(statusResponse) can be called with: nothing, a failure, a
\* body with success and subscription.status, or one with success and no
\* subscription.
StatusAnswers == {"empty", "failure", "active", "inactive", "noSubscription"}

\* A callback that leaves the timer alone.
TimeoutKept(timeout) == timeout

\* clearTimeout(timeout): an armed timer never fires, a fired one stays fired.
TimeoutCleared(timeout) == IF timeout = "armed" THEN "cleared" ELSE timeout

CheckoutMessage(answer) ==
  CASE answer = "runtimeError" -> "Error: lastError"
    [] answer = "empty" -> "No response from server"
    [] answer = "success" -> "Checkout opened in new tab"
    [] answer = "failure" -> "Failed to start subscription"

WorkerUnchanged ==
  UNCHANGED <<authToken, currentUser, extensionEnabled, pageTitles, storage, tabUrl, req>>

\* A click on the enabled subscribe button: the button is disabled; without
\* messageDiv the function returns, with it the timer is armed and
\* createCheckoutSession is sent.
StartSubscription(hasMessageDiv) ==
  /\ ui.pc = "idle" /\ ~ui.disabled /\ ui.interval # "set"
  /\ ui' = IF hasMessageDiv
             THEN [ui EXCEPT !.pc = "sent", !.disabled = TRUE, !.timeout = "armed",
                             !.message = "Creating secure checkout session",
                             !.responded = FALSE, !.interval = "none", !.checkCount = 0]
             ELSE [ui EXCEPT !.disabled = TRUE]
  /\ WorkerUnchanged

\* The 10-second timer fires.
CheckoutTimeout ==
  /\ ui.timeout = "armed"
  /\ ui' = [ui EXCEPT !.timeout = "fired", !.disabled = FALSE,
                      !.message = "Request timed out"]
  /\ WorkerUnchanged

\* function(response) of createCheckoutSession: every branch enables the
\* button; the success branch starts the interval.
CheckoutAnswered(answer) ==
  /\ ui.pc = "sent"
  /\ ui' = [ui EXCEPT !.pc = "idle", !.timeout = TimeoutCleared(@), !.responded = TRUE,
                      !.disabled = FALSE, !.message = CheckoutMessage(answer),
                      !.interval = IF answer = "success" THEN "set" ELSE @,
                      !.checkCount = 0]
  /\ WorkerUnchanged

\* The bound on the messages without a callback.
MaxPending == 2

\* The interval's callback: checkCount++ and refreshSubscriptionStatus is sent.
CheckTick ==
  /\ ui.interval = "set" /\ ui.refreshes + ui.statuses < MaxPending
  /\ ui' = [ui EXCEPT !.checkCount = IF @ > MaxChecks THEN @ ELSE @ + 1,
                      !.refreshes = @ + 1]
  /\ WorkerUnchanged

\* function(refreshResponse): whatever the answer, getSubscriptionStatus is sent.
CheckRefreshAnswered ==
  /\ ui.refreshes > 0
  /\ ui' = [ui EXCEPT !.refreshes = @ - 1, !.statuses = @ + 1]
  /\ WorkerUnchanged

\* A callback that tests statusResponse.subscription before it reads status.
StatusHandledGuarded(u, answer) ==
  LET active == [u EXCEPT !.interval = IF @ = "set" THEN "cleared" ELSE @,
                          !.message = "Subscription activated", !.reloading = TRUE]
      seen == IF answer = "active" THEN active ELSE u IN
  IF u.checkCount > MaxChecks
    THEN [seen EXCEPT !.interval = IF @ = "set" THEN "cleared" ELSE @]
    ELSE seen

\* The body of function(statusResponse): reading subscription.status of a
\* successful answer without subscription throws, and the rest is skipped;
\* an active status clears the interval and schedules the reload; then a
\* checkCount above MaxChecks clears the interval.
StatusHandled(u, answer) ==
  IF answer = "noSubscription" THEN u ELSE StatusHandledGuarded(u, answer)

\* function(statusResponse) of getSubscriptionStatus
CheckStatusAnswered(answer) ==
  /\ ui.statuses > 0
  /\ ui' = StatusHandled([ui EXCEPT !.statuses = @ - 1], answer)
  /\ WorkerUnchanged

\* setTimeout(() => location.reload(), 1500): the panel starts over.
CheckoutReload ==
  /\ ui.reloading
  /\ ui' = CheckoutIdle
  /\ WorkerUnchanged

CheckoutInit ==
  /\ authToken = "t1"
  /\ currentUser = "u1"
  /\ extensionEnabled = TRUE
  /\ pageTitles = {}
  /\ storage = [EmptyStorage EXCEPT !.authToken = "t1", !.currentUser = "u1"]
  /\ tabUrl = [t \in Tabs |-> "a"]
  /\ req = [s \in 1..MaxRouterReq |-> IdleReq]
  /\ ui = CheckoutIdle

CheckoutNext ==
  \/ \E hasMessageDiv \in BOOLEAN : StartSubscription(hasMessageDiv)
  \/ CheckoutTimeout
  \/ \E answer \in CheckoutAnswers : CheckoutAnswered(answer)
  \/ CheckTick
  \/ CheckRefreshAnswered
  \/ \E answer \in StatusAnswers : CheckStatusAnswered(answer)
  \/ CheckoutReload

\* The timers fire, and every refreshSubscriptionStatus and
\* getSubscriptionStatus message is answered; createCheckoutSession may stay
\* without an answer.
CheckoutSpec ==
  /\ CheckoutInit
  /\ [][CheckoutNext]_vars
  /\ WF_vars(CheckoutTimeout)
  /\ WF_vars(CheckTick)
  /\ WF_vars(CheckRefreshAnswered)
  /\ WF_vars(\E answer \in StatusAnswers : CheckStatusAnswered(answer))
  /\ WF_vars(CheckoutReload)


\* ---------------------------------------------------- the onboarding wizard

\* onboarding.js: currentStep; the key onboardingCompleted of
\* chrome.storage.local, which only this page writes; save is "sent" while
\* savePreferences has no callback yet; preferences is the record collected
\* from the radio buttons; notified tells that preferencesUpdated was sent.
WizardStart ==
  [currentStep |-> 1, onboardingCompleted |-> FALSE, save |-> "none",
   preferences |-> Absent, notified |-> FALSE]

\* The navigation buttons: the step whose section holds the button, which is
\* the only one shown while that step is active, and the argument of its
\* showStep call.
NavButtons ==
  {[id |-> "getStartedBtn", in |-> 1, to |-> 2],
   [id |-> "backToWelcomeBtn", in |-> 2, to |-> 1],
   [id |-> "continueToLevelBtn", in |-> 2, to |-> 3],
   [id |-> "backToTypeBtn", in |-> 3, to |-> 2],
   [id |-> "continueToPrefsBtn", in |-> 3, to |-> 4],
   [id |-> "backToLevelBtn", in |-> 4, to |-> 3]}

\* What chrome.storage.local.set can do: store the items, fail and report it
\* to the callback, or throw before anything is stored.
SetResults == {"stored", "failed", "threw"}

\* showStep(stepNumber) from a navigation button's listener
WizardNavigate(b) ==
  /\ ui.currentStep = b.in
  /\ ui' = [ui EXCEPT !.currentStep = b.to]
  /\ WorkerUnchanged

\* The finish button's listener: the write of onboardingCompleted is issued,
\* savePreferences is sent and step 5 is shown; when the write throws, the
\* catch block shows step 5 and nothing is sent.
WizardFinish(p, written) ==
  /\ ui.currentStep = 4
  /\ ui' = [ui EXCEPT !.currentStep = 5,
                      !.onboardingCompleted = @ \/ written = "stored",
                      !.save = IF written = "threw" THEN @ ELSE "sent",
                      !.preferences = IF written = "threw" THEN @ ELSE p]
  /\ WorkerUnchanged

\* The worker's listener gets the savePreferences message the wizard sent.
WizardSaveDelivered(s) ==
  /\ ui.save = "sent" /\ WorkerIdle
  /\ SavePreferences(s, ui.preferences)

\* function(response) of savePreferences: a success sends preferencesUpdated.
WizardSaveAnswered(s) ==
  /\ ui.save = "sent" /\ Answered(s, "savePreferences")
  /\ ui' = [ui EXCEPT !.save = "answered",
                      !.notified = req[s].nresp > 0 /\ req[s].resp.kind = "success"]
  /\ req' = [req EXCEPT ![s] = IdleReq]
  /\ PanelUnchanged

\* The wizard is opened again.
WizardOpened ==
  /\ ui.currentStep = 5 /\ ui.save # "sent"
  /\ ui' = [WizardStart EXCEPT !.onboardingCompleted = ui.onboardingCompleted]
  /\ WorkerUnchanged

WizardInit ==
  /\ authToken = "t1"
  /\ currentUser = "u1"
  /\ extensionEnabled = TRUE
  /\ pageTitles = {}
  /\ storage = [EmptyStorage EXCEPT !.authToken = "t1", !.currentUser = "u1"]
  /\ tabUrl = [t \in Tabs |-> "a"]
  /\ req = [s \in 1..MaxRouterReq |-> IdleReq]
  /\ ui = WizardStart

WizardNext ==
  \/ \E b \in NavButtons : WizardNavigate(b)
  \/ \E p \in PrefValues, written \in SetResults : WizardFinish(p, written)
  \/ \E s \in DOMAIN req : WizardSaveDelivered(s)
  \/ \E s \in DOMAIN req : WizardSaveAnswered(s)
  \/ WizardOpened
  \/ \E s \in DOMAIN req : SaveFetch(s)
  \/ \E s \in DOMAIN req : SaveReplied(s)
  \/ \E s \in DOMAIN req : SaveReloaded(s)

WizardSpec == WizardInit /\ [][WizardNext]_vars


\* ================================================================ claims

Done(s) == req[s].pc = "done"

ReplayActions == {"summarizePage", "savePreferences"}

IOActions ==
  {"summarizePage", "summarizeHTML", "testBackend", "googleAuth", "logout", "checkAuth",
   "getSubscriptionStatus", "createCheckoutSession", "refreshSubscriptionStatus",
   "forceAuthRefresh", "savePreferences", "loadPreferences", "sendFeedback"}

IsGood(reply) == reply.good
IsUnauthorized(reply) == reply.status = Unauthorized

\* The request in slot s got 401 on its first call and, on its second, a
\* success body / another 401.
UnauthorizedTwoReplies(s) ==
  /\ req[s].action \in ReplayActions
  /\ Len(req[s].replies) = 2
  /\ req[s].replies[1].status = Unauthorized

UnauthorizedThenGood(s) == UnauthorizedTwoReplies(s) /\ IsGood(req[s].replies[2])

UnauthorizedTwice(s) == UnauthorizedTwoReplies(s) /\ IsUnauthorized(req[s].replies[2])


\* The token an Authorization header carries.
TokenOf(bearer) == IF bearer \in Tokens THEN bearer ELSE Absent

\* C1: in every reachable state the in-memory authToken is present if and
\* only if the in-memory currentUser is present.
C1_TokenIffUser == Present(authToken) <=> Present(currentUser)

\* C2: a summarizePage or savePreferences request whose first backend call
\* returns 401 and whose second succeeds has made exactly two backend calls
\* with exactly one reload of the session after the first, and is answered
\* with the successful result of the second call.
C2_ReplayedOnce ==
  \A s \in DOMAIN req :
    /\ req[s].action \in ReplayActions /\ req[s].ncalls = 2 => req[s].reloads = 1
    /\ req[s].action \in ReplayActions /\ req[s].reloads = 1 => req[s].ncalls >= 1
    /\ Done(s) /\ UnauthorizedThenGood(s) =>
         /\ req[s].ncalls = 2
         /\ req[s].reloads = 1
         /\ req[s].nresp = 1
         /\ req[s].resp = Success(req[s].replies[2].val)

C2_Witness ==
  \E s \in DOMAIN req :
    /\ Done(s) /\ UnauthorizedThenGood(s)
    /\ req[s].action = "summarizePage"
    /\ req[s].resp = Success("S")

\* C3: a summarizePage or savePreferences request causes at most two backend
\* calls, whatever the backend returns and whatever else is in flight.
C3_AtMostTwoCalls ==
  \A s \in DOMAIN req :
    req[s].action \in ReplayActions => req[s].ncalls <= 2 /\ Len(req[s].replies) <= 2

C3_Witness ==
  \E s, o \in DOMAIN req :
    /\ s # o
    /\ Done(s) /\ UnauthorizedTwice(s) /\ req[s].ncalls = 2
    /\ req[o].action \in ReplayActions /\ req[o].ncalls = 2 /\ req[o].pc \in {"sp_fetch", "sv_fetch"}

\* C4: a summarizePage or savePreferences request that got 401 on the first
\* call and on the replay ends with the session cleared in memory and in
\* durable storage and with an error response.
C4_SecondUnauthorizedClears ==
  \A s \in DOMAIN req :
    Done(s) /\ UnauthorizedTwice(s) =>
      /\ authToken = Absent /\ currentUser = Absent
      /\ storage.authToken = Absent /\ storage.currentUser = Absent
      /\ req[s].resp.kind = "failure"

\* C5: the replayed call carries the body of the first call and, as bearer
\* token, the token the reload read from durable storage.
C5_ReplayIdentical ==
  [][\A s \in DOMAIN req :
       req[s].action \in ReplayActions /\ req[s].ncalls = 1 /\ req'[s].ncalls = 2 =>
         /\ req'[s].sent.body = req[s].first
         /\ TokenOf(req'[s].sent.bearer) = req[s].loaded]_vars

\* C6: sendResponse is invoked at most once for every message.
C6_AtMostOneResponse == \A s \in DOMAIN req : req[s].nresp <= 1

C6_Witness ==
  \E s \in DOMAIN req :
    /\ Done(s) /\ req[s].nresp = 1
    /\ \/ req[s].action = "forceAuthRefresh" /\ req[s].ncalls = 2
       \/ UnauthorizedTwice(s)

\* The awaited operation the response depended on failed: the last fetch was
\* rejected or the awaited storage write failed.
OperationFailed(r) ==
  \/ ~r.stored
  \/ Len(r.replies) > 0 /\ r.replies[Len(r.replies)].status = 0

C8_UnknownIgnored ==
  [][\A s \in DOMAIN req :
       req[s].pc = "idle" /\ req'[s].action \in UnknownActions =>
         /\ req'[s].pc = "done"
         /\ req'[s].nresp = 0 /\ req'[s].ncalls = 0 /\ req'[s].reloads = 0
         /\ UNCHANGED <<authToken, currentUser, extensionEnabled, pageTitles, storage>>]_vars

C8_Witness ==
  \E s \in DOMAIN req :
    /\ Done(s) /\ req[s].action = "createPortalSession"
    /\ Present(authToken) /\ Present(currentUser) /\ ~extensionEnabled /\ pageTitles # {}

\* C9: when googleAuth is answered with success:true the in-memory session
\* and durable storage hold the token and user the backend returned, and a
\* checkAuth answered authenticated:true returns the user of the session.
C9_AuthStoresSession ==
  \A s \in DOMAIN req :
    /\ Done(s) /\ req[s].action = "googleAuth" /\ req[s].resp.kind = "success" =>
         /\ authToken = req[s].data.token /\ currentUser = req[s].data.user
         /\ storage.authToken = req[s].data.token
         /\ storage.currentUser = req[s].data.user
    /\ Done(s) /\ req[s].action = "checkAuth" /\ req[s].resp.kind = "authenticated" =>
         req[s].resp.user = currentUser

\* C10: googleAuth stores a session only when the backend's response carries
\* both the token and the user.
C10_SetNeedsBoth ==
  \A s \in DOMAIN req :
    req[s].pc = "ga_set" => Present(req[s].data.token) /\ Present(req[s].data.user)

\* C11: when a logout is answered with success, authToken and currentUser are
\* absent in memory and in storage, and the step that starts the logout has
\* already cleared the in-memory fields when it reaches its first await.
C11_LogoutClears ==
  /\ [](\A s \in DOMAIN req :
          Done(s) /\ req[s].action = "logout" /\ req[s].resp.kind = "success" =>
            /\ ~Present(authToken) /\ ~Present(currentUser)
            /\ ~Present(storage.authToken) /\ ~Present(storage.currentUser))
  /\ [][\A s \in DOMAIN req :
          req[s].pc = "idle" /\ req'[s].action = "logout" =>
            ~Present(authToken') /\ ~Present(currentUser')]_vars

\* The checkAuth in r got a non-2xx status from the verify call.
VerifyRefused(r) ==
  /\ r.action = "checkAuth"
  /\ Len(r.replies) = 1
  /\ r.replies[1].status # 0 /\ ~IsOk(r.replies[1].status)

C13_NoSessionNoCall ==
  [][\A s \in DOMAIN req :
       /\ req[s].pc = "idle" /\ req'[s].action = "checkAuth"
       /\ ~Present(authToken) \/ ~Present(currentUser)
       => /\ req'[s].pc = "done"
          /\ req'[s].nresp = 1 /\ req'[s].resp = NotAuthenticated
          /\ req'[s].ncalls = 0
          /\ UNCHANGED <<authToken, currentUser, storage>>]_vars

C13_Witness ==
  \E s \in DOMAIN req :
    /\ Done(s) /\ req[s].action = "checkAuth" /\ req[s].ncalls = 0
    /\ req[s].resp = NotAuthenticated
    /\ ~Present(authToken) /\ Present(storage.authToken) /\ Present(storage.currentUser)

\* C14: with a token and a user in storage, no checkAuth is answered at once
\* from an in-memory session that holds neither.
C14_NeverUnloaded ==
  \A s \in DOMAIN req :
    /\ Done(s) /\ req[s].action = "checkAuth" /\ req[s].ncalls = 0
    /\ Present(storage.authToken) /\ Present(storage.currentUser)
    => Present(authToken) \/ Present(currentUser)

\* The suspensions at which a caller awaits initializeExtensionState: the
\* startup and icon-click events, the two 401 branches, forceAuthRefresh.
LoadPcs == {"init_get", "sp_reload", "sv_reload", "fa_reload"}

\* C15: when the storage read of initializeExtensionState fails, the step
\* that resumes its caller leaves authToken and currentUser absent and
\* extensionEnabled true, and the caller goes on as after any load: the event
\* ends, the summarize replay starts, the save replay and forceAuthRefresh
\* answer that there is no session.
C15_FailedLoadDefaults ==
  [][\A s \in DOMAIN req :
       req[s].pc \in LoadPcs /\ ~req[s].snap.ok /\ req'[s] # req[s] =>
         /\ ~Present(authToken') /\ ~Present(currentUser') /\ extensionEnabled'
         /\ req[s].pc = "init_get" => req'[s].pc = "done" /\ req'[s].nresp = 0
         /\ req[s].pc = "sp_reload" =>
              req'[s].pc = "sp_tab" /\ req'[s].retryCount = ReplayCount /\ req'[s].nresp = 0
         /\ req[s].pc = "sv_reload" =>
              /\ req'[s].pc = "done"
              /\ req'[s].resp = Failure("Authentication required to save preferences")
         /\ req[s].pc = "fa_reload" =>
              req'[s].pc = "done" /\ req'[s].resp = Failure("Not authenticated")]_vars

C15_Witness ==
  \E s \in DOMAIN req :
    /\ req[s].action = "summarizePage" /\ req[s].pc = "sp_tab" /\ req[s].reloads = 1
    /\ Present(storage.authToken) /\ Present(storage.currentUser)
    /\ storage.extensionEnabled = "false"
    /\ ~Present(authToken) /\ ~Present(currentUser) /\ extensionEnabled

\* C16: every backend call a handler issues carries the in-memory token as
\* its bearer when the session holds a token at that moment, and carries no
\* Authorization header when it holds none.
C16_BearerMatchesToken ==
  [][\A s \in DOMAIN req :
       req'[s].ncalls = req[s].ncalls + 1 =>
         req'[s].sent.bearer = (IF Present(authToken') THEN authToken' ELSE "none")]_vars

\* The actions whose backend replies are a bare body: a 2xx reply of theirs
\* that is not a good one is a reply whose body is not JSON.
BareBodyActions == IOActions \ {"savePreferences", "loadPreferences", "sendFeedback"}

NonJsonOk(reply) == IsOk(reply.status) /\ ~reply.good

\* C17: a request that received a backend reply whose body is not JSON ends
\* in one response to the caller, and that response is an error.
C17_NonJsonIsError ==
  \A s \in DOMAIN req :
    /\ Done(s) /\ req[s].action \in BareBodyActions
    /\ \E i \in 1..Len(req[s].replies) : NonJsonOk(req[s].replies[i])
    => req[s].nresp = 1 /\ req[s].resp.kind \in {"failure", "unauthenticated"}

\* The reply the finished request in r ended on was a non-2xx JSON body with
\* an error string.
EndedOnBackendError(r) ==
  /\ Len(r.replies) > 0
  /\ r.replies[Len(r.replies)].status # 0
  /\ ~IsOk(r.replies[Len(r.replies)].status)
  /\ r.heard.json /\ Present(r.heard.err)

\* C18: for every I/O action, a request that ended on a non-2xx JSON reply
\* with an error string e is answered with a failure whose error is e.
C18_ErrorVerbatim ==
  \A s \in DOMAIN req :
    Done(s) /\ req[s].action \in IOActions /\ EndedOnBackendError(req[s]) =>
      req[s].resp.kind = "failure" /\ req[s].resp.err = req[s].heard.err

\* The I/O actions that call the backend for one thing; forceAuthRefresh
\* reloads the session and then makes its two calls, whatever the first
\* returns.
SingleCallActions == IOActions \ {"forceAuthRefresh"}

\* The one reply the request in r got was a rejected fetch, or a body that is
\* not JSON with a status other than 401.
OnlyReplyFailed(r) ==
  /\ Len(r.replies) = 1
  /\ \/ r.replies[1].status = 0
     \/ ~r.heard.json /\ r.replies[1].status # Unauthorized

\* C19: a request whose first backend call is rejected or returns a status
\* other than 401 is never replayed: it has made one backend call and no
\* session reload; and when that reply was a rejection or a body that is not
\* JSON, the request is answered once, with a failure.
C19_FailureNotReplayed ==
  \A s \in DOMAIN req :
    /\ /\ req[s].action \in SingleCallActions
       /\ Len(req[s].replies) >= 1
       /\ req[s].replies[1].status # Unauthorized
       => req[s].ncalls = 1 /\ req[s].reloads = 0 /\ Len(req[s].replies) = 1
    /\ Done(s) /\ req[s].action \in SingleCallActions /\ OnlyReplyFailed(req[s]) =>
         req[s].nresp = 1 /\ req[s].resp.kind \in {"failure", "unauthenticated"}

C19_Witness ==
  \E s \in DOMAIN req :
    /\ Done(s) /\ req[s].action = "savePreferences" /\ OnlyReplyFailed(req[s])
    /\ req[s].replies[1].status = 0
    /\ req[s].ncalls = 1 /\ req[s].reloads = 0
    /\ req[s].resp = Failure("Network error while saving preferences")

\* C19 as stated: whichever call of whichever I/O action ends in a rejected
\* fetch or in a body that is not JSON with a status other than 401, the
\* request has made exactly one backend call and no reload and is answered
\* with a failure.
C19_AnyCallNotReplayed ==
  \A s \in DOMAIN req :
    /\ Done(s) /\ req[s].action \in IOActions /\ Len(req[s].replies) >= 1
    /\ \/ req[s].replies[Len(req[s].replies)].status = 0
       \/ ~req[s].heard.json /\ req[s].replies[Len(req[s].replies)].status # Unauthorized
    => /\ req[s].ncalls = 1 /\ req[s].reloads = 0
       /\ req[s].nresp = 1 /\ req[s].resp.kind \in {"failure", "unauthenticated"}

\* C20: savePreferences posts the preferences it was given, and a
\* loadPreferences to which the backend returns the record p answers with
\* preferences that hold the value of every field of p.
C20_RoundTrip ==
  \A s \in DOMAIN req :
    /\ req[s].action = "savePreferences" /\ req[s].sent # NoCall =>
         req[s].sent.body = req[s].arg
    /\ /\ Done(s) /\ req[s].action = "loadPreferences"
       /\ Len(req[s].replies) = 1 /\ req[s].replies[1].good
       /\ req[s].replies[1].val \in PrefValues
       => /\ req[s].resp.kind = "success"
          /\ FieldsCarried(req[s].resp.val, req[s].replies[1].val) = PrefFields

C22_SummaryCarried ==
  \A s \in DOMAIN req :
    /\ Done(s) /\ req[s].action = "summarizePage"
    /\ req[s].replies # <<>>
    /\ IsOk(req[s].replies[Len(req[s].replies)].status)
    /\ req[s].heard.json
    /\ Present(req[s].replies[Len(req[s].replies)].val)
    => /\ req[s].nresp = 1
       /\ req[s].resp = Success(req[s].replies[Len(req[s].replies)].val)

C22_Witness ==
  \E s \in DOMAIN req :
    /\ Done(s) /\ req[s].action = "summarizePage"
    /\ Len(req[s].replies) = 1
    /\ req[s].replies[1].status = 200 /\ req[s].heard.json
    /\ req[s].replies[1].val = "S"
    /\ req[s].resp = Success("S")

\* The reply a finished invocation last heard, as far as its handler reads it.
Heard(r) ==
  Response(r.replies[Len(r.replies)].status, r.heard.json, FALSE, r.heard.err,
           Absent, Absent, r.replies[Len(r.replies)].val)

\* C23: with several summarizePage requests in flight, whose backend calls
\* come back in any order, a response reaches only the callback of the request
\* it belongs to, one at a time, and it is computed from the url of that
\* request's own tab and from that request's own backend reply.
C23_OwnResponse ==
  /\ [](\A s \in DOMAIN req :
          Done(s) /\ req[s].replies # <<>> =>
            /\ req[s].first = tabUrl[req[s].arg]
            /\ req[s].resp = SummaryResult(Heard(req[s]), PageFields))
  /\ [][\A s \in DOMAIN req :
          req'[s].nresp # req[s].nresp =>
            /\ req[s].pc \in {"sp_tab", "sp_fetch"} \/ req'[s].pc = "idle"
            /\ \A o \in DOMAIN req \ {s} : req'[o] = req[o]]_vars

C23_Witness ==
  \E s, o \in DOMAIN req :
    /\ Done(s) /\ req[s].arg = "tab2" /\ req[s].first = "b"
    /\ req[s].resp = Success("S")
    /\ req[o].pc = "sp_fetch" /\ req[o].arg = "tab1" /\ req[o].sent.body = "a"
    /\ req[o].retryCount = 0 /\ req[s].retryCount = 0

FrameActions ==
  {"getSubscriptionStatus", "refreshSubscriptionStatus", "createCheckoutSession",
   "loadPreferences", "sendFeedback", "summarizeHTML", "testBackend"}

\* C24: no step of getSubscriptionStatus, refreshSubscriptionStatus,
\* createCheckoutSession, loadPreferences, sendFeedback, summarizeHTML or
\* testBackend, from its dispatch to its return, changes the authToken or the
\* currentUser in memory or in storage, whatever the backend returns.
C24_SessionUntouched ==
  [][\A s \in DOMAIN req :
       /\ req'[s] # req[s]
       /\ req[s].action \in FrameActions \/ req'[s].action \in FrameActions
       => /\ authToken' = authToken
          /\ currentUser' = currentUser
          /\ storage'.authToken = storage.authToken
          /\ storage'.currentUser = storage.currentUser]_vars

C24_Witness ==
  \E s \in DOMAIN req :
    /\ Done(s) /\ req[s].action = "loadPreferences"
    /\ req[s].resp.kind = "success"
    /\ Present(storage.prefsCache)
    /\ Present(authToken) /\ storage.authToken = authToken
    /\ Present(currentUser) /\ storage.currentUser = currentUser

NoReplayActions ==
  {"getSubscriptionStatus", "createCheckoutSession", "refreshSubscriptionStatus",
   "loadPreferences", "sendFeedback", "summarizeHTML"}

\* C25: a getSubscriptionStatus, createCheckoutSession,
\* refreshSubscriptionStatus, loadPreferences, sendFeedback or summarizeHTML
\* request whose backend call returns 401 has made exactly one backend call
\* and no session reload, and is answered once, with success:false.
C25_UnauthorizedNotReplayed ==
  \A s \in DOMAIN req :
    /\ req[s].action \in NoReplayActions
    /\ req[s].replies # <<>>
    /\ req[s].replies[1].status = Unauthorized
    => /\ Done(s)
       /\ req[s].ncalls = 1 /\ Len(req[s].replies) = 1
       /\ req[s].reloads = 0
       /\ req[s].nresp = 1 /\ req[s].resp.kind = "failure"

C25_Witness ==
  \E s \in DOMAIN req :
    /\ Done(s) /\ req[s].action = "getSubscriptionStatus"
    /\ req[s].replies # <<>>
    /\ req[s].replies[1].status = Unauthorized
    /\ req[s].ncalls = 1 /\ req[s].reloads = 0
    /\ req[s].resp = Failure("Failed to get subscription status")

AuthedActions ==
  {"getSubscriptionStatus", "createCheckoutSession", "refreshSubscriptionStatus",
   "savePreferences", "loadPreferences", "sendFeedback", "summarizePage"}

\* The session is cleared: no token and no user, in memory or in storage.
SessionCleared ==
  /\ authToken = Absent /\ currentUser = Absent
  /\ storage.authToken = Absent /\ storage.currentUser = Absent

\* C26: a step of an authenticated action (getSubscriptionStatus,
\* createCheckoutSession, refreshSubscriptionStatus, savePreferences,
\* loadPreferences, sendFeedback, summarizePage) taken while the session holds
\* no token issues no backend call; the request is answered with a failure
\* when it is dispatched, and the session is cleared afterwards.
C26_NoTokenRefused ==
  [][\A s \in DOMAIN req :
       /\ ~Present(authToken)
       /\ req'[s] # req[s]
       /\ req'[s].action \in AuthedActions
       => /\ req'[s].ncalls = req[s].ncalls
          /\ req[s].pc = "idle" =>
               /\ req'[s].pc = "done" /\ req'[s].nresp = 1
               /\ req'[s].resp.kind \in {"failure", "unauthenticated"}
               /\ SessionCleared']_vars

\* The messages whose case ends in break, and those without a case.
BreakActions == {"toggleExtension", "pageLoaded", "checkEnabled"} \cup UnknownActions

\* C27: the listener has returned true for every request whose handler waits
\* for a storage or network operation or has issued one, and has not
\* returned it for toggleExtension, pageLoaded, checkEnabled and actions
\* without a case.
C27_PendingIffIO ==
  \A s \in DOMAIN req :
    /\ \/ req[s].pc \notin {"idle", "done"}
       \/ req[s].ncalls > 0 \/ req[s].reloads > 0
       \/ req[s].action \in IOActions
       => req[s].pending
    /\ req[s].action \in BreakActions => ~req[s].pending

C27_Witness ==
  \E s \in DOMAIN req :
    /\ req[s].action = "logout" /\ req[s].pc \notin {"idle", "done"}
    /\ req[s].ncalls = 0 /\ req[s].pending

\* The handler of the request r ended in a failure: a failed storage
\* operation, a rejected fetch, or an answer of success:false (a backend
\* error, a refused session, a request with a missing field).
HandlerFailed(r) ==
  r.pc = "done" /\ (OperationFailed(r) \/ r.resp.kind \in {"failure", "unauthenticated"})

\* The listener takes every message: each case of its switch, and a message
\* without a case, can run in slot s.
Dispatchable(s) ==
  /\ \A b \in BOOLEAN : ENABLED ToggleExtension(s, b)
  /\ \A t \in {x \in Tabs : tabUrl[x] \in Urls} : ENABLED PageLoaded(s, t)
  /\ ENABLED CheckEnabled(s)
  /\ \A a \in UnknownActions : ENABLED Unrecognized(s, a)
  /\ ENABLED GoogleAuth(s) /\ ENABLED Logout(s) /\ ENABLED CheckAuth(s)
  /\ ENABLED GetSubscriptionStatus(s) /\ ENABLED CreateCheckoutSession(s)
  /\ ENABLED RefreshSubscriptionStatus(s) /\ ENABLED ForceAuthRefresh(s)
  /\ \A t \in Tabs : ENABLED SummarizePage(s, t)
  /\ \A h \in {Absent, "html"} : ENABLED SummarizeHTML(s, h)
  /\ ENABLED TestBackend(s)
  /\ \A p \in PrefValues : ENABLED SavePreferences(s, p)
  /\ ENABLED LoadPreferences(s) /\ ENABLED SendFeedback(s)

ToggleHandled(s) == req[s].pc = "idle" /\ req'[s].action = "toggleExtension"

\* The step finishes a load (initializeExtensionState) for slot s.
LoadFinished(s) == req[s].pc \in LoadPcs /\ req'[s].pc # req[s].pc

\* C29: checkEnabled is answered in the step that dispatches it, with the
\* extensionEnabled the worker holds; that value changes only when a
\* toggleExtension message sets it to the message's value or a load sets it
\* to what it read; and a toggleExtension that carries the value already held
\* changes neither memory nor storage.
C29_EnabledFromToggleOrLoad ==
  [][/\ \A s \in DOMAIN req :
          /\ req[s].pc = "idle" /\ req'[s].action = "checkEnabled" =>
               /\ req'[s].pc = "done" /\ req'[s].nresp = 1
               /\ req'[s].resp.val = BoolStr(extensionEnabled)
          /\ ToggleHandled(s) /\ req'[s].arg = BoolStr(extensionEnabled) =>
               UNCHANGED <<authToken, currentUser, extensionEnabled, pageTitles, storage>>
     /\ extensionEnabled' # extensionEnabled =>
          \E s \in DOMAIN req :
            \/ ToggleHandled(s) /\ req'[s].arg = BoolStr(extensionEnabled')
            \/ LoadFinished(s) /\ extensionEnabled' = LoadedEnabled(req[s].snap)]_vars

\* extensionEnabled as storage holds it, absent read as true.
StoredEnabled(st) == st.extensionEnabled # "false"

\* C30: the extensionEnabled the worker holds equals the stored one (absent
\* read as true) whenever a load has finished, whether its read worked or
\* failed, whenever the toggleExtension message of a UI toggle (which carries
\* the value the surface has just stored) has been handled, and whenever the
\* flag changes otherwise, as at the start of the worker.
C30_EnabledMatchesStorage ==
  [][/\ \A s \in DOMAIN req :
          \/ LoadFinished(s)
          \/ ToggleHandled(s) /\ req'[s].arg = storage.extensionEnabled
          => extensionEnabled' = StoredEnabled(storage')
     /\ extensionEnabled' # extensionEnabled /\ ~(\E s \in DOMAIN req : ToggleHandled(s))
          => extensionEnabled' = StoredEnabled(storage')]_vars

\* C31: a logout that will be answered with success:true leaves the session
\* absent in memory and in storage, and an absent session stays absent until
\* a step of a googleAuth sets it, whatever handlers were in flight when the
\* logout started.
C31_LogoutStaysCleared ==
  [][/\ \A s \in DOMAIN req :
          req[s].pc = "idle" /\ req'[s].action = "logout" /\ req'[s].stored
            => SessionCleared'
     /\ SessionCleared /\ ~SessionCleared' =>
          \E s \in DOMAIN req : req[s].action = "googleAuth" /\ req'[s] # req[s]]_vars

\* C32: whenever no handler and no load is in flight, the authToken and the
\* currentUser in memory equal the ones in storage.
C32_QuietMemoryIsStorage ==
  (\A s \in DOMAIN req : req[s].pc = "idle") =>
    authToken = storage.authToken /\ currentUser = storage.currentUser

\* The session the worker holds and the session storage holds.
Session == <<authToken, currentUser, storage.authToken, storage.currentUser>>

\* C33: a googleAuth that is answered with success:false has left the session
\* in memory and in storage as it was: the only step of a googleAuth that
\* changes the session is the one whose storage write works and whose
\* answer, built from the user it stored, is success:true.
C33_FailedAuthKeepsSession ==
  [][\A s \in DOMAIN req :
       /\ req[s].action = "googleAuth" /\ req'[s] # req[s]
       /\ Session' # Session
       => req'[s].pc = "ga_set" /\ req'[s].stored /\ Present(currentUser')]_vars

\* The verify call of the checkAuth in r was rejected, or came back 2xx with
\* a body that is not JSON.
VerifyFailed(r) ==
  /\ r.action = "checkAuth" /\ Len(r.replies) = 1
  /\ \/ r.replies[1].status = 0
     \/ IsOk(r.replies[1].status) /\ ~r.heard.json

\* C34: a checkAuth whose verify call is rejected or returns a 2xx body that
\* cannot be parsed is answered authenticated:false in the step that gets the
\* reply, and that step changes nothing in memory or storage, so that a
\* session that was there before the reply is there for the next checkAuth.
C34_FailedVerifyKeepsSession ==
  [][\A s \in DOMAIN req :
       req[s].pc = "ca_fetch" /\ VerifyFailed(req'[s]) =>
         /\ req'[s].pc = "done" /\ req'[s].nresp = 1
         /\ req'[s].resp = NotAuthenticated
         /\ UNCHANGED <<authToken, currentUser, extensionEnabled, pageTitles, storage>>]_vars

C34_Witness ==
  \E s \in DOMAIN req :
    /\ Done(s) /\ VerifyFailed(req[s])
    /\ IsOk(req[s].replies[1].status)
    /\ req[s].resp = NotAuthenticated
    /\ authToken = "t1" /\ storage.authToken = "t1"
    /\ Present(currentUser) /\ storage.currentUser = currentUser
    /\ CheckAuthStart(NewReq("checkAuth", "start", Absent)).pc = "ca_fetch"

\* C35: a forceAuthRefresh issues its subscription-refresh call only after
\* its reload has finished, and its verify call only after the refresh call
\* has been answered; it makes no other call and no second reload; and when
\* the reload yields no token or no user it answers 'Not authenticated'
\* without any backend call.
C35_RefreshInOrder ==
  /\ [](\A s \in DOMAIN req :
          req[s].action = "forceAuthRefresh" =>
            /\ req[s].reloads = 1 /\ req[s].ncalls <= 2
            /\ req[s].pc = "fa_reload" => req[s].ncalls = 0 /\ req[s].replies = <<>>
            /\ req[s].sent # NoCall /\ req[s].sent.ep = "subscription/refresh" =>
                 /\ req[s].snap = NoSnap
                 /\ req[s].ncalls = 1 /\ req[s].replies = <<>>
            /\ req[s].sent # NoCall /\ req[s].sent.ep = "auth/verify" =>
                 /\ req[s].snap = NoSnap
                 /\ req[s].ncalls = 2 /\ Len(req[s].replies) = 1
            /\ req[s].sent # NoCall => req[s].sent.ep \in {"subscription/refresh", "auth/verify"})
  /\ [][\A s \in DOMAIN req :
          /\ req[s].action = "forceAuthRefresh" /\ req[s].pc = "fa_reload"
          /\ req'[s] # req[s]
          /\ ~Present(authToken') \/ ~Present(currentUser')
          => /\ req'[s].pc = "done" /\ req'[s].ncalls = 0
             /\ req'[s].resp = Failure("Not authenticated")]_vars

C35_Witness ==
  \E s \in DOMAIN req :
    /\ req[s].action = "forceAuthRefresh" /\ req[s].pc = "ca_fetch"
    /\ req[s].sent # NoCall /\ req[s].sent.ep = "auth/verify"
    /\ req[s].reloads = 1 /\ req[s].ncalls = 2 /\ Len(req[s].replies) = 1

\* The verify call of the forceAuthRefresh in r came back 2xx with a JSON body
\* and the user it carried was written to storage.
VerifySucceeded(r) ==
  /\ Len(r.replies) = 2
  /\ IsOk(r.replies[2].status) /\ r.heard.json /\ r.stored

InFlightCalls ==
  IF \E s \in DOMAIN req : req[s].action = "summarizePage"
    THEN req[CHOOSE s \in DOMAIN req : req[s].action = "summarizePage"].ncalls
    ELSE 0

\* C37: one click on the summarize button sends at most two summarizePage
\* messages and causes at most four summarize backend calls; the second
\* message is sent only from the forceAuthRefresh callback, after the first
\* failed with a token error and the refresh succeeded; and the second
\* message's callback sends nothing, whatever the answer.
C37_ClickSendsAtMostTwo ==
  /\ [](ui.msgs <= 2 /\ ui.calls + InFlightCalls <= 2 * ui.msgs
        /\ ui.calls + InFlightCalls <= 4
        /\ (ui.msgs = 2 => TokenError(ui.firstError) /\ ui.refreshed))
  /\ [][/\ ui'.msgs = 2 /\ ui.msgs # 2 =>
             /\ ui.pc = "refresh" /\ ui.msgs = 1 /\ TokenError(ui.firstError)
             /\ \E s \in DOMAIN req :
                  /\ Answered(s, "forceAuthRefresh")
                  /\ req[s].resp.kind = "success" /\ req'[s] = IdleReq
        /\ (ui.pc = "second" /\ ui' # ui) => ui'.pc = "idle" /\ ui'.msgs = 2]_vars

\* The second summarizePage failed with a token error after two backend
\* calls, as the first had, and the click is over.
C37_Witness ==
  /\ ui.pc = "idle" /\ ui.msgs = 2 /\ ui.calls = 4 /\ ui.refreshed
  /\ TokenError(ui.firstError)

\* C38: once startSubscription has disabled the subscribe button and sent
\* createCheckoutSession, the button is enabled again, whether the message
\* is answered (in any way) or not; and the step that shows the time-out
\* message is never taken once the response was processed.
C38_ButtonComesBack ==
  /\ (ui.pc = "sent" /\ ui.disabled) ~> ~ui.disabled
  /\ [][/\ ui'.message = "Request timed out" /\ ui.message # "Request timed out"
             => ~ui.responded /\ ui.pc = "sent"
        /\ ui.pc = "sent" /\ ui'.pc = "idle" /\ ui'.responded
             => ~ui'.disabled /\ ui'.timeout # "armed"]_vars

\* A response came in time: the timer is cleared and the response shown.
C38_Witness ==
  /\ ui.responded /\ ui.timeout = "cleared" /\ ~ui.disabled
  /\ ui.message = "No response from server"

\* C39: the polling ends: while every refreshSubscriptionStatus and
\* getSubscriptionStatus message is answered, a set interval is eventually
\* cleared.
C39_PollingTerminates == (ui.interval = "set") ~> (ui.interval # "set")

\* C40: the click on finish leaves onboardingCompleted set in storage and
\* step 5 shown, whatever becomes of savePreferences; currentStep is always
\* one of 1..5; and every change of currentStep made by a button is to a
\* neighbouring step.
C40_FinishCompletes ==
  /\ [](ui.currentStep \in 1..5)
  /\ [][/\ ui.currentStep = 4 /\ ui'.currentStep = 5 => ui'.onboardingCompleted
        /\ ui.currentStep = 4 /\ ui'.currentStep # 4 => ui'.currentStep \in {3, 5}
        /\ ui.currentStep \in 1..3 /\ ui'.currentStep # ui.currentStep
             => ui'.currentStep \in {ui.currentStep - 1, ui.currentStep + 1}]_vars

====
